---- MODULE Spec2Model ----
(***************************************************************************)
(* Model of include/inline_poly.h: the type-erased operation table, the    *)
(* relocation helpers and the two containers poly_array and poly_vector.   *)
(*                                                                         *)
(* A run works either on poly_vector objects or on poly_array objects      *)
(* (variable kind); it owns two objects of that class, so that whole-      *)
(* container copy and move have a source and a destination.  An occupant   *)
(* is represented by the concrete variant it was constructed as; a pointer *)
(* is the address <<container, slot>> of the storage it points into.       *)
(***************************************************************************)
EXTENDS Integers, Sequences, FiniteSets

\* ------------------------------------------------------------------------
\* Bounds of the model
\* ------------------------------------------------------------------------

\* template parameter Capacity of poly_vector
Capacity == 3

\* template parameter N of poly_array
N == 2

\* the container objects of a run
ContainerIds == {1, 2}

\* largest number of slots the objects of a run have in use together
MaxTotal == 4

\* largest object size, in bytes, an operation table records
MaxSize == 2

\* ------------------------------------------------------------------------
\* Variants and their operation tables
\* ------------------------------------------------------------------------

\* Concrete variants, by the constructors they declare:
\*   Copyable  - copy and move constructor (tests: Dog, Label)
\*   MoveOnly  - move constructor, copy constructor deleted (tests: Canvas)
\*   CopyOnly  - copy constructor, move constructor deleted
\*   Immovable - both deleted (tests: ImmovableDerived1)
Variants == {"Copyable", "MoveOnly", "CopyOnly", "Immovable"}

\* no object / no operation table
NONE == "none"

\* nullptr
NULL == <<>>

\* std::is_copy_constructible_v<T>
is_copy_constructible_v(T) == T \in {"Copyable", "CopyOnly"}

\* std::is_move_constructible_v<T>
is_move_constructible_v(T) == T \in {"Copyable", "MoveOnly"}

\* std::is_trivially_copyable_v<T>: every stored variant derives from a Base
\* with a virtual destructor (concept PolymorphicBase), which is never trivial
is_trivially_copyable_v(T) == FALSE

\* sizeof(T): the header fixes no value; the containers never read ops.size of
\* a stored variant (none is trivially copyable), so one value stands for all
sizeof(T) == MaxSize

\* type_operations_factory<T>::create(); a function pointer is modelled by
\* whether it is set, variant is the T the lambdas were instantiated for
create(T) ==
    [variant               |-> T,
     size                  |-> sizeof(T),
     destroy               |-> TRUE,
     move_construct        |-> is_move_constructible_v(T),
     copy_construct        |-> is_copy_constructible_v(T),
     is_trivially_copyable |-> is_trivially_copyable_v(T),
     is_copy_constructible |-> is_copy_constructible_v(T),
     is_move_constructible |-> is_move_constructible_v(T)]

\* get_type_ops<T>()
get_type_ops(T) == create(T)

\* the outcome of a relocation or copy: how the object was built (by
\* std::memcpy of bytes bytes, by the move or by the copy operation of the
\* table) and the object now in dst, NONE if dst was not written
Built(out, how, bytes, obj) ==
    [out |-> out, how |-> how, bytes |-> bytes, obj |-> obj]

\* a safe_move_construct that prefers the copy operation to the move
\* operation
safe_move_construct_copy_first(ops, copy_throws) ==
    IF ops.is_trivially_copyable
    THEN Built("ok", "memcpy", ops.size, ops.variant)
    ELSE IF ops.copy_construct
    THEN IF copy_throws
         THEN Built("exception", "copy", 0, NONE)
         ELSE Built("ok", "copy", 0, ops.variant)
    ELSE IF ops.move_construct
    THEN Built("ok", "move", 0, ops.variant)
    ELSE Built("runtime_error", "none", 0, NONE)

\* safe_move_construct(dst, src, ops): the object constructed in dst, or the
\* failure.  copy_throws: the variant's copy constructor throws on this call.
safe_move_construct(ops, copy_throws) ==
    IF ops.is_trivially_copyable
    THEN Built("ok", "memcpy", ops.size, ops.variant)
    ELSE IF ops.move_construct
    THEN Built("ok", "move", 0, ops.variant)
    ELSE IF ops.copy_construct
    THEN IF copy_throws
         THEN Built("exception", "copy", 0, NONE)
         ELSE Built("ok", "copy", 0, ops.variant)
    ELSE Built("runtime_error", "none", 0, NONE)

\* a safe_copy_construct that prefers the raw byte copy to the copy operation
safe_copy_construct_memcpy_first(ops, copy_throws) ==
    IF ops.is_trivially_copyable
    THEN Built("ok", "memcpy", ops.size, ops.variant)
    ELSE IF ops.copy_construct
    THEN IF copy_throws
         THEN Built("exception", "copy", 0, NONE)
         ELSE Built("ok", "copy", 0, ops.variant)
    ELSE Built("runtime_error", "none", 0, NONE)

\* safe_copy_construct(dst, src, ops)
safe_copy_construct(ops, copy_throws) ==
    IF ops.copy_construct
    THEN IF copy_throws
         THEN Built("exception", "copy", 0, NONE)
         ELSE Built("ok", "copy", 0, ops.variant)
    ELSE IF ops.is_trivially_copyable
    THEN Built("ok", "memcpy", ops.size, ops.variant)
    ELSE Built("runtime_error", "none", 0, NONE)

\* ------------------------------------------------------------------------
\* State
\* ------------------------------------------------------------------------

VARIABLES
    kind,   \* "vector" or "array": the class of the run's container objects
    alive,  \* alive[c]: object c is within its lifetime
    vec,    \* vec[c]: the members of poly_vector object c
    arr,    \* arr[c]: the members of poly_array object c
    halted, \* std::terminate has ended the process
    reloc   \* a direct call of safe_move_construct: its arguments and result

vars == <<kind, alive, vec, arr, halted, reloc>>

\* slot_info{}
EmptySlot == [ptr |-> NULL, ops |-> NONE]

\* slot.ptr && slot.ops
Occupied(slot) == slot.ptr # NULL /\ slot.ops # NONE

VSlots == 0 .. Capacity - 1

\* The entries of ptr_cache_ while cache_valid_ is false.  They are dead: every
\* reader (data, begin, end, emplace, erase) calls update_ptr_cache() first,
\* which rewrites all of them.  The model keeps one representative of them,
\* the initial nullptr entries.
VNoCache == [i \in VSlots |-> NULL]

\* a default-constructed poly_vector (member initialisers)
poly_vector_default ==
    [storage_     |-> [i \in VSlots |-> NONE],
     slots_       |-> [i \in VSlots |-> EmptySlot],
     size_        |-> 0,
     can_copy_    |-> FALSE,
     can_move_    |-> TRUE,
     ptr_cache_   |-> VNoCache,
     cache_valid_ |-> FALSE]

\* no copy constructor throws during the call
NoThrow == 0 - 1

\* no direct call of safe_move_construct is under way
NoCall == [call |-> "none"]

\* result of a call on one object / on a pair of objects
Ret(self, out) == [self |-> self, out |-> out]

\* result of a call that returns an iterator: it is the position the iterator
\* has in ptr_cache_ (begin() is 0, end() is size_)
RetIt(self, out, it) == [self |-> self, out |-> out, it |-> it]

Ret2(self, other, out) == [self |-> self, other |-> other, out |-> out]

\* result of an accessor: the object after the call, how the call ended, the
\* pointer it returned
Acc(self, out, ptr) == [self |-> self, out |-> out, ptr |-> ptr]

\* ------------------------------------------------------------------------
\* poly_vector: private helpers
\* ------------------------------------------------------------------------

\* poly_vector::destroy_at(index)
v_destroy_at(self, index) ==
    IF Occupied(self.slots_[index])
    THEN [self EXCEPT !.storage_[self.slots_[index].ptr[2]] = NONE,
                      !.slots_[index] = EmptySlot]
    ELSE self

\* poly_vector::update_capabilities()
v_update_capabilities(self) ==
    LET occ          == {i \in 0 .. self.size_ - 1 : Occupied(self.slots_[i])}
        has_elements == occ # {}
        all_copyable == \A i \in occ :
                            get_type_ops(self.slots_[i].ops).is_copy_constructible
        all_movable  == \A i \in occ :
                            get_type_ops(self.slots_[i].ops).is_move_constructible
    IN  [self EXCEPT !.can_copy_ = ~has_elements \/ all_copyable,
                     !.can_move_ = ~has_elements \/ all_movable]

\* poly_vector::update_ptr_cache()
v_update_ptr_cache(self) ==
    IF ~self.cache_valid_
    THEN [self EXCEPT !.ptr_cache_ = [i \in VSlots |->
                                         IF i < self.size_ THEN self.slots_[i].ptr
                                                           ELSE NULL],
                      !.cache_valid_ = TRUE]
    ELSE self

\* a relocation that destroys and empties the source before it constructs
\* the destination
v_relocate_steps_destroy_first(self, c, src, dst, obj) ==
    LET s1 == [self EXCEPT !.storage_[src] = NONE]
        s2 == [s1 EXCEPT !.slots_[src] = EmptySlot]
        s3 == [s2 EXCEPT !.storage_[dst] = obj]
        s4 == [s3 EXCEPT !.slots_[dst] = [ptr |-> <<c, dst>>,
                                          ops |-> self.slots_[src].ops]]
    IN  <<s1, s2, s3, s4>>

\* the body of the loops of shift_right / shift_left once safe_move_construct
\* has built obj in slot dst: the states the container passes through, after
\* the construction, after "slots_[dst] = slots_[src]; slots_[dst].ptr = ...",
\* after safe_destroy(src_storage) and after "slots_[src] = {}"
v_relocate_steps(self, c, src, dst, obj) ==
    LET s1 == [self EXCEPT !.storage_[dst] = obj]
        s2 == [s1 EXCEPT !.slots_[dst] = [ptr |-> <<c, dst>>,
                                          ops |-> self.slots_[src].ops]]
        s3 == [s2 EXCEPT !.storage_[src] = NONE]
        s4 == [s3 EXCEPT !.slots_[src] = EmptySlot]
    IN  <<s1, s2, s3, s4>>

\* one iteration of the loops of shift_right / shift_left: relocate slot src
\* of object c to slot dst, then destroy the source
v_relocate(self, c, src, dst, cf) ==
    LET r == safe_move_construct(get_type_ops(self.slots_[src].ops), cf = src)
    IN  IF r.out # "ok"
        THEN Ret(self, r.out)
        ELSE Ret(v_relocate_steps(self, c, src, dst, r.obj)[4], "ok")

\* poly_vector::shift_right(start_index, count): i runs from size_ down to
\* start_index + 1
RECURSIVE v_shift_right_from(_, _, _, _, _, _)
v_shift_right_from(self, c, i, start_index, count, cf) ==
    IF ~(i > start_index)
    THEN Ret(self, "ok")
    ELSE LET src == i - 1
             dst == src + count
         IN  IF Occupied(self.slots_[src])
             THEN LET r == v_relocate(self, c, src, dst, cf)
                  IN  IF r.out # "ok"
                      THEN r
                      ELSE v_shift_right_from(r.self, c, i - 1, start_index,
                                              count, cf)
             ELSE v_shift_right_from(self, c, i - 1, start_index, count, cf)

v_shift_right(self, c, start_index, count, cf) ==
    v_shift_right_from(self, c, self.size_, start_index, count, cf)

\* the iterations i .. last - 1 of the loop of shift_left
RECURSIVE v_shift_left_upto(_, _, _, _, _, _)
v_shift_left_upto(self, c, i, last, count, cf) ==
    IF ~(i < last)
    THEN Ret(self, "ok")
    ELSE LET dst == i - count
         IN  IF Occupied(self.slots_[i])
             THEN LET r == v_relocate(self, c, i, dst, cf)
                  IN  IF r.out # "ok"
                      THEN r
                      ELSE v_shift_left_upto(r.self, c, i + 1, last, count, cf)
             ELSE v_shift_left_upto(self, c, i + 1, last, count, cf)

\* poly_vector::shift_left(start_index, count): i runs from start_index up to
\* size_ - 1
v_shift_left_from(self, c, i, count, cf) ==
    v_shift_left_upto(self, c, i, self.size_, count, cf)

\* a shift that moves every element one position, whatever count is
v_shift_left_by_one(self, c, start_index, count, cf) ==
    v_shift_left_from(self, c, start_index, 1, cf)

\* poly_vector::shift_left(start_index, count)
v_shift_left(self, c, start_index, count, cf) ==
    v_shift_left_from(self, c, start_index, count, cf)

\* ------------------------------------------------------------------------
\* poly_vector: public member functions
\* ------------------------------------------------------------------------

\* an emplace_back that makes room in a full container by destroying the last
\* element before it reports the failure
v_emplace_back_full_pops(self, c, Derived, ctor_throws) ==
    IF self.size_ >= Capacity
    THEN Ret(v_destroy_at([self EXCEPT !.size_ = self.size_ - 1],
                          self.size_ - 1), "out_of_range")
    ELSE IF ctor_throws
    THEN Ret(self, "exception")
    ELSE Ret(v_update_capabilities(
                 [self EXCEPT !.storage_[self.size_] = Derived,
                              !.slots_[self.size_]   = [ptr |-> <<c, self.size_>>,
                                                        ops |-> Derived],
                              !.size_                = self.size_ + 1,
                              !.cache_valid_         = FALSE,
                              !.ptr_cache_           = VNoCache]), "ok")

\* an emplace_back that counts the new element before it constructs it
v_emplace_back_size_first(self, c, Derived, ctor_throws) ==
    IF self.size_ >= Capacity
    THEN Ret(self, "out_of_range")
    ELSE IF ctor_throws
    THEN Ret([self EXCEPT !.size_ = self.size_ + 1], "exception")
    ELSE Ret(v_update_capabilities(
                 [self EXCEPT !.storage_[self.size_] = Derived,
                              !.slots_[self.size_]   = [ptr |-> <<c, self.size_>>,
                                                        ops |-> Derived],
                              !.size_                = self.size_ + 1,
                              !.cache_valid_         = FALSE,
                              !.ptr_cache_           = VNoCache]), "ok")

\* poly_vector::emplace_back<Derived>(args): ctor_throws says whether the
\* constructor of Derived throws
v_emplace_back(self, c, Derived, ctor_throws) ==
    IF self.size_ >= Capacity
    THEN Ret(self, "out_of_range")
    ELSE IF ctor_throws
    THEN Ret(self, "exception")
    ELSE Ret(v_update_capabilities(
                 [self EXCEPT !.storage_[self.size_] = Derived,
                              !.slots_[self.size_]   = [ptr |-> <<c, self.size_>>,
                                                        ops |-> Derived],
                              !.size_                = self.size_ + 1,
                              !.cache_valid_         = FALSE,
                              !.ptr_cache_           = VNoCache]), "ok")

\* poly_vector::pop_back()
v_pop_back(self) ==
    IF self.size_ = 0
    THEN Ret(self, "out_of_range")
    ELSE Ret(v_update_capabilities(
                 [v_destroy_at([self EXCEPT !.size_ = self.size_ - 1],
                               self.size_ - 1)
                     EXCEPT !.cache_valid_ = FALSE,
                            !.ptr_cache_   = VNoCache]), "ok")

\* poly_vector::emplace<Derived>(pos, args), index = pos - begin()
v_emplace(self, c, index, Derived, ctor_throws, cf) ==
    LET s0 == v_update_ptr_cache(self)
    IN  IF index > s0.size_
        THEN Ret(s0, "out_of_range")
        ELSE IF s0.size_ >= Capacity
        THEN Ret(s0, "out_of_range")
        ELSE LET r == IF index < s0.size_
                      THEN v_shift_right(s0, c, index, 1, cf)
                      ELSE Ret(s0, "ok")
             IN  IF r.out # "ok"
                 THEN r
                 ELSE IF ctor_throws
                 THEN Ret(r.self, "exception")
                 ELSE RetIt(v_update_ptr_cache(v_update_capabilities(
                                [r.self EXCEPT
                                    !.storage_[index] = Derived,
                                    !.slots_[index]   = [ptr |-> <<c, index>>,
                                                         ops |-> Derived],
                                    !.size_           = r.self.size_ + 1,
                                    !.cache_valid_    = FALSE,
                                    !.ptr_cache_      = VNoCache])),
                            "ok", index)

\* the loop "for (i = first_index; i < last_index; ++i) destroy_at(i)"
RECURSIVE v_destroy_range(_, _, _)
v_destroy_range(self, i, last_index) ==
    IF ~(i < last_index)
    THEN self
    ELSE v_destroy_range(v_destroy_at(self, i), i + 1, last_index)

\* an erase that destroys the range before it looks at can_move_
v_erase_range_destroy_first(self, c, first_index, last_index, cf) ==
    LET s0    == v_update_ptr_cache(self)
        count == last_index - first_index
    IN  IF first_index > last_index \/ last_index > s0.size_
        THEN Ret(s0, "out_of_range")
        ELSE IF count = 0
        THEN Ret(s0, "ok")
        ELSE LET s1 == v_destroy_range(s0, first_index, last_index)
             IN  IF last_index < s1.size_ /\ ~s1.can_move_
                 THEN Ret(s1, "runtime_error")
                 ELSE LET r == IF last_index < s1.size_
                               THEN v_shift_left(s1, c, last_index, count, cf)
                               ELSE Ret(s1, "ok")
                      IN  IF r.out # "ok"
                          THEN r
                          ELSE Ret(v_update_ptr_cache(v_update_capabilities(
                                       [r.self EXCEPT
                                           !.size_ = r.self.size_ - count,
                                           !.cache_valid_ = FALSE,
                                           !.ptr_cache_ = VNoCache])), "ok")

\* an erase that asks for can_move_ even when nothing has to be shifted
v_erase_range_needs_move(self, c, first_index, last_index, cf) ==
    LET s0    == v_update_ptr_cache(self)
        count == last_index - first_index
    IN  IF first_index > last_index \/ last_index > s0.size_
        THEN Ret(s0, "out_of_range")
        ELSE IF count = 0
        THEN Ret(s0, "ok")
        ELSE IF ~s0.can_move_
        THEN Ret(s0, "runtime_error")
        ELSE LET s1 == v_destroy_range(s0, first_index, last_index)
                 r  == IF last_index < s1.size_
                       THEN v_shift_left(s1, c, last_index, count, cf)
                       ELSE Ret(s1, "ok")
             IN  IF r.out # "ok"
                 THEN r
                 ELSE Ret(v_update_ptr_cache(v_update_capabilities(
                              [r.self EXCEPT !.size_        = r.self.size_ - count,
                                             !.cache_valid_ = FALSE,
                                             !.ptr_cache_   = VNoCache])), "ok")

\* an erase that returns the position last had before the call
v_erase_range_returns_last(self, c, first_index, last_index, cf) ==
    LET s0    == v_update_ptr_cache(self)
        count == last_index - first_index
    IN  IF first_index > last_index \/ last_index > s0.size_
        THEN Ret(s0, "out_of_range")
        ELSE IF count = 0
        THEN RetIt(s0, "ok", first_index)
        ELSE IF last_index < s0.size_ /\ ~s0.can_move_
        THEN Ret(s0, "runtime_error")
        ELSE LET s1 == v_destroy_range(s0, first_index, last_index)
                 r  == IF last_index < s1.size_
                       THEN v_shift_left(s1, c, last_index, count, cf)
                       ELSE Ret(s1, "ok")
             IN  IF r.out # "ok"
                 THEN r
                 ELSE RetIt(v_update_ptr_cache(v_update_capabilities(
                                [r.self EXCEPT !.size_        = r.self.size_ - count,
                                               !.cache_valid_ = FALSE,
                                               !.ptr_cache_   = VNoCache])),
                            "ok", last_index)

\* poly_vector::erase(first, last), the iterators given as indices
v_erase_range(self, c, first_index, last_index, cf) ==
    LET s0    == v_update_ptr_cache(self)
        count == last_index - first_index
    IN  IF first_index > last_index \/ last_index > s0.size_
        THEN Ret(s0, "out_of_range")
        ELSE IF count = 0
        THEN RetIt(s0, "ok", first_index)
        ELSE IF last_index < s0.size_ /\ ~s0.can_move_
        THEN Ret(s0, "runtime_error")
        ELSE LET s1 == v_destroy_range(s0, first_index, last_index)
                 r  == IF last_index < s1.size_
                       THEN v_shift_left(s1, c, last_index, count, cf)
                       ELSE Ret(s1, "ok")
             IN  IF r.out # "ok"
                 THEN r
                 ELSE RetIt(v_update_ptr_cache(v_update_capabilities(
                                [r.self EXCEPT !.size_        = r.self.size_ - count,
                                               !.cache_valid_ = FALSE,
                                               !.ptr_cache_   = VNoCache])),
                            "ok", first_index)

\* an erase that takes a position beyond the last element for the last one
v_erase_clamped(self, c, index, cf) ==
    LET s0 == v_update_ptr_cache(self)
    IN  IF s0.size_ = 0
        THEN Ret(s0, "out_of_range")
        ELSE IF index >= s0.size_
        THEN v_erase_range(s0, c, s0.size_ - 1, s0.size_, cf)
        ELSE v_erase_range(s0, c, index, index + 1, cf)

\* poly_vector::erase(pos)
v_erase(self, c, index, cf) ==
    LET s0 == v_update_ptr_cache(self)
    IN  IF index >= s0.size_
        THEN Ret(s0, "out_of_range")
        ELSE v_erase_range(s0, c, index, index + 1, cf)

\* poly_vector::clear()
v_clear(self) ==
    [v_destroy_range(self, 0, self.size_)
        EXCEPT !.size_ = 0, !.can_copy_ = FALSE, !.can_move_ = TRUE,
               !.cache_valid_ = FALSE,
               !.ptr_cache_   = VNoCache]

\* the loop "while (size_ > new_size) pop_back()"
RECURSIVE v_resize_shrink(_, _)
v_resize_shrink(self, new_size) ==
    IF ~(self.size_ > new_size)
    THEN self
    ELSE v_resize_shrink(v_pop_back(self).self, new_size)

\* a growth that counts the new positions without writing their pointers
RECURSIVE v_resize_grow_unwritten(_, _)
v_resize_grow_unwritten(self, new_size) ==
    IF ~(self.size_ < new_size)
    THEN self
    ELSE v_resize_grow_unwritten([self EXCEPT !.size_ = self.size_ + 1],
                                 new_size)

\* the loop "while (size_ < new_size) { slots_[size_].ptr = nullptr; ++size_; }"
RECURSIVE v_resize_grow(_, _)
v_resize_grow(self, new_size) ==
    IF ~(self.size_ < new_size)
    THEN self
    ELSE v_resize_grow([self EXCEPT !.slots_[self.size_].ptr = NULL,
                                    !.size_ = self.size_ + 1], new_size)

\* poly_vector::resize(new_size)
v_resize(self, new_size) ==
    IF new_size > Capacity
    THEN Ret(self, "out_of_range")
    ELSE Ret([v_resize_grow(v_resize_shrink(self, new_size), new_size)
                 EXCEPT !.cache_valid_ = FALSE,
                        !.ptr_cache_   = VNoCache], "ok")

\* an at() whose bound is off by one
v_at_off_by_one(self, index) ==
    IF index > self.size_
    THEN Acc(self, "out_of_range", NULL)
    ELSE Acc(self, "ok", self.slots_[index].ptr)

\* poly_vector::at(index)
v_at(self, index) ==
    IF index >= self.size_
    THEN Acc(self, "out_of_range", NULL)
    ELSE Acc(self, "ok", self.slots_[index].ptr)

\* poly_vector::front()
v_front(self) ==
    IF self.size_ = 0
    THEN Acc(self, "out_of_range", NULL)
    ELSE Acc(self, "ok", self.slots_[0].ptr)

\* poly_vector::back()
v_back(self) ==
    IF self.size_ = 0
    THEN Acc(self, "out_of_range", NULL)
    ELSE Acc(self, "ok", self.slots_[self.size_ - 1].ptr)

\* poly_vector::begin(): refreshes the pointer cache and returns an iterator
\* to its first entry; end() is begin plus size_
v_begin(self) == v_update_ptr_cache(self)

\* the entries a traversal of begin() .. end() reads: ptr_cache_[0 .. size_)
v_range(self) ==
    LET s == v_begin(self)
    IN  [i \in 1 .. s.size_ |-> s.ptr_cache_[i - 1]]

\* poly_vector::reserve(new_cap)
v_reserve(self, new_cap) ==
    IF new_cap > Capacity
    THEN Ret(self, "length_error")
    ELSE Ret(self, "ok")

\* poly_vector::shrink_to_fit()
v_shrink_to_fit(self) == Ret(self, "ok")

\* poly_vector::copy_from(other), from loop index i on; self.size_ is already
\* other.size_
RECURSIVE v_copy_from_loop(_, _, _, _, _)
v_copy_from_loop(self, c, other, i, cf) ==
    IF ~(i < self.size_)
    THEN Ret([self EXCEPT !.can_copy_    = other.can_copy_,
                          !.can_move_    = other.can_move_,
                          !.cache_valid_ = FALSE,
                          !.ptr_cache_   = VNoCache], "ok")
    ELSE IF Occupied(other.slots_[i])
    THEN LET r == safe_copy_construct(get_type_ops(other.slots_[i].ops), cf = i)
         IN  IF r.out # "ok"
             THEN Ret(self, r.out)
             ELSE v_copy_from_loop(
                      [self EXCEPT !.storage_[i] = r.obj,
                                   !.slots_[i]   = [ptr |-> <<c, i>>,
                                                    ops |-> other.slots_[i].ops]],
                      c, other, i + 1, cf)
    ELSE v_copy_from_loop(self, c, other, i + 1, cf)

\* poly_vector::copy_from(other)
v_copy_from(self, c, other, cf) ==
    v_copy_from_loop([self EXCEPT !.size_ = other.size_], c, other, 0, cf)

\* the body of the loop of move_from once safe_move_construct has built obj
\* in slot i of the target: the states target and source pass through, after
\* the construction, after "slots_[i] = {dst, other.slots_[i].ops}" and
\* through other.destroy_at(i), which destroys the source object and then
\* resets its slot
v_move_element_steps(self, c, other, i, obj) ==
    LET s1 == [self EXCEPT !.storage_[i] = obj]
        s2 == [s1 EXCEPT !.slots_[i] = [ptr |-> <<c, i>>,
                                        ops |-> other.slots_[i].ops]]
        o3 == [other EXCEPT !.storage_[other.slots_[i].ptr[2]] = NONE]
    IN  <<Ret2(s1, other, "ok"), Ret2(s2, other, "ok"), Ret2(s2, o3, "ok"),
          Ret2(s2, v_destroy_at(other, i), "ok")>>

\* the iterations i .. last - 1 of the loop of move_from.  The function is
\* noexcept: an exception leaving safe_move_construct calls std::terminate.
RECURSIVE v_move_from_upto(_, _, _, _, _, _)
v_move_from_upto(self, c, other, i, last, cf) ==
    IF ~(i < last)
    THEN Ret2(self, other, "ok")
    ELSE IF Occupied(other.slots_[i])
    THEN LET r == safe_move_construct(get_type_ops(other.slots_[i].ops), cf = i)
         IN  IF r.out # "ok"
             THEN Ret2(self, other, "terminate")
             ELSE LET t == v_move_element_steps(self, c, other, i, r.obj)[4]
                  IN  v_move_from_upto(t.self, c, t.other, i + 1, last, cf)
    ELSE v_move_from_upto(self, c, other, i + 1, last, cf)

\* poly_vector::move_from(other), from loop index i on; self.size_ is already
\* other.size_
v_move_from_loop(self, c, other, i, cf) ==
    LET r == v_move_from_upto(self, c, other, i, self.size_, cf)
    IN  IF r.out # "ok"
        THEN r
        ELSE Ret2([r.self EXCEPT !.can_copy_    = other.can_copy_,
                                 !.can_move_    = other.can_move_,
                                 !.cache_valid_ = FALSE,
                                 !.ptr_cache_   = VNoCache],
                  [r.other EXCEPT !.size_ = 0], "ok")

\* poly_vector::move_from(other)
v_move_from(self, c, other, cf) ==
    v_move_from_loop([self EXCEPT !.size_ = other.size_], c, other, 0, cf)

\* poly_vector(const poly_vector& other)
v_copy_construct(c, other, cf) ==
    IF ~other.can_copy_
    THEN Ret(poly_vector_default, "logic_error")
    ELSE v_copy_from(poly_vector_default, c, other, cf)

\* poly_vector(poly_vector&& other)
v_move_construct(c, other, cf) ==
    v_move_from(poly_vector_default, c, other, cf)

\* operator= that clears the target before it checks the source
v_copy_assign_clear_first(self, c, other, cf) ==
    IF ~other.can_copy_
    THEN Ret(v_clear(self), "logic_error")
    ELSE v_copy_from(v_clear(self), c, other, cf)

\* poly_vector::operator=(const poly_vector& other), this != &other
v_copy_assign(self, c, other, cf) ==
    IF ~other.can_copy_
    THEN Ret(self, "logic_error")
    ELSE v_copy_from(v_clear(self), c, other, cf)

\* poly_vector::operator=(const poly_vector& other), this == &other
v_copy_assign_self(self) ==
    IF ~self.can_copy_
    THEN Ret(self, "logic_error")
    ELSE Ret(self, "ok")

\* poly_vector::operator=(poly_vector&& other), this != &other
v_move_assign(self, c, other, cf) ==
    v_move_from(v_clear(self), c, other, cf)

\* ------------------------------------------------------------------------
\* poly_array
\* ------------------------------------------------------------------------

ASlots == 0 .. N - 1

\* the entries of ptr_cache_ while cache_valid_ is false (see VNoCache)
ANoCache == [i \in ASlots |-> NULL]

\* a default-constructed poly_array (member initialisers)
poly_array_default ==
    [storage_     |-> [i \in ASlots |-> NONE],
     slots_       |-> [i \in ASlots |-> EmptySlot],
     can_copy_    |-> FALSE,
     can_move_    |-> TRUE,
     ptr_cache_   |-> ANoCache,
     cache_valid_ |-> FALSE]

\* a destroy_at that runs the destructor and keeps the slot's pointer
a_destroy_at_keep_slot(self, index) ==
    IF Occupied(self.slots_[index])
    THEN [self EXCEPT !.storage_[self.slots_[index].ptr[2]] = NONE]
    ELSE self

\* poly_array::destroy_at(index)
a_destroy_at(self, index) ==
    IF Occupied(self.slots_[index])
    THEN [self EXCEPT !.storage_[self.slots_[index].ptr[2]] = NONE,
                      !.slots_[index] = EmptySlot]
    ELSE self

\* poly_array::update_capabilities()
a_update_capabilities(self) ==
    LET occ          == {i \in ASlots : Occupied(self.slots_[i])}
        has_elements == occ # {}
        all_copyable == \A i \in occ :
                            get_type_ops(self.slots_[i].ops).is_copy_constructible
        all_movable  == \A i \in occ :
                            get_type_ops(self.slots_[i].ops).is_move_constructible
    IN  [self EXCEPT !.can_copy_ = ~has_elements \/ all_copyable,
                     !.can_move_ = ~has_elements \/ all_movable]

\* poly_array::update_ptr_cache()
a_update_ptr_cache(self) ==
    IF ~self.cache_valid_
    THEN [self EXCEPT !.ptr_cache_ = [i \in ASlots |-> self.slots_[i].ptr],
                      !.cache_valid_ = TRUE]
    ELSE self

\* poly_array::invalidate_cache()
a_invalidate_cache(self) ==
    [self EXCEPT !.cache_valid_ = FALSE, !.ptr_cache_ = ANoCache]

\* an emplace that keeps the old occupant when the constructor throws
a_emplace_keep_on_failure(self, c, index, Derived, ctor_throws) ==
    IF index >= N
    THEN Ret(self, "out_of_range")
    ELSE IF ctor_throws
    THEN Ret(self, "exception")
    ELSE LET s1 == IF self.slots_[index].ptr # NULL
                   THEN a_destroy_at(self, index)
                   ELSE self
         IN  Ret(a_invalidate_cache(a_update_capabilities(
                     [s1 EXCEPT !.storage_[index] = Derived,
                                !.slots_[index]   = [ptr |-> <<c, index>>,
                                                     ops |-> Derived]])),
                 "ok")

\* an emplace that empties the other slots
a_emplace_alone(self, c, index, Derived, ctor_throws) ==
    IF index >= N
    THEN Ret(self, "out_of_range")
    ELSE LET s1 == IF self.slots_[index].ptr # NULL
                   THEN a_destroy_at(self, index)
                   ELSE self
         IN  IF ctor_throws
             THEN Ret(s1, "exception")
             ELSE Ret(a_invalidate_cache(a_update_capabilities(
                          [s1 EXCEPT
                              !.storage_ = [j \in ASlots |->
                                 IF j = index THEN Derived ELSE NONE],
                              !.slots_   = [j \in ASlots |->
                                 IF j = index
                                 THEN [ptr |-> <<c, index>>, ops |-> Derived]
                                 ELSE EmptySlot]])),
                      "ok")

\* poly_array::emplace<Derived>(index, args)
a_emplace(self, c, index, Derived, ctor_throws) ==
    IF index >= N
    THEN Ret(self, "out_of_range")
    ELSE LET s1 == IF self.slots_[index].ptr # NULL
                   THEN a_destroy_at(self, index)
                   ELSE self
         IN  IF ctor_throws
             THEN Ret(s1, "exception")
             ELSE Ret(a_invalidate_cache(a_update_capabilities(
                          [s1 EXCEPT !.storage_[index] = Derived,
                                     !.slots_[index]   = [ptr |-> <<c, index>>,
                                                          ops |-> Derived]])),
                      "ok")

\* the loop of poly_array::clear(), from index i on
RECURSIVE a_clear_loop(_, _)
a_clear_loop(self, i) ==
    IF ~(i < N)
    THEN self
    ELSE a_clear_loop(IF self.slots_[i].ptr # NULL THEN a_destroy_at(self, i)
                                                   ELSE self, i + 1)

\* poly_array::clear()
a_clear(self) ==
    a_invalidate_cache([a_clear_loop(self, 0) EXCEPT !.can_copy_ = FALSE,
                                                     !.can_move_ = TRUE])

\* poly_array::at(index)
a_at(self, index) ==
    IF index >= N
    THEN Acc(self, "out_of_range", NULL)
    ELSE Acc(self, "ok", self.slots_[index].ptr)

\* poly_array::operator[](index), index < N
a_subscript(self, index) == self.slots_[index].ptr

\* poly_array::data(), begin(): refreshes the pointer cache and returns a
\* pointer to its first entry; end() is data() + N
a_data(self) == a_update_ptr_cache(self)

\* the entries a traversal of begin() .. end() reads: ptr_cache_[0 .. N)
a_range(self) ==
    LET s == a_data(self)
    IN  [i \in 1 .. N |-> s.ptr_cache_[i - 1]]

\* poly_array::copy_from(other), from loop index i on
RECURSIVE a_copy_from_loop(_, _, _, _, _)
a_copy_from_loop(self, c, other, i, cf) ==
    IF ~(i < N)
    THEN Ret([self EXCEPT !.can_copy_ = other.can_copy_,
                          !.can_move_ = other.can_move_], "ok")
    ELSE IF Occupied(other.slots_[i])
    THEN LET r == safe_copy_construct(get_type_ops(other.slots_[i].ops), cf = i)
         IN  IF r.out # "ok"
             THEN Ret(self, r.out)
             ELSE a_copy_from_loop(
                      [self EXCEPT !.storage_[i] = r.obj,
                                   !.slots_[i]   = [ptr |-> <<c, i>>,
                                                    ops |-> other.slots_[i].ops]],
                      c, other, i + 1, cf)
    ELSE a_copy_from_loop(self, c, other, i + 1, cf)

\* poly_array::copy_from(other)
a_copy_from(self, c, other, cf) == a_copy_from_loop(self, c, other, 0, cf)

\* poly_array::move_from(other), from loop index i on (noexcept)
RECURSIVE a_move_from_loop(_, _, _, _, _)
a_move_from_loop(self, c, other, i, cf) ==
    IF ~(i < N)
    THEN Ret2([self EXCEPT !.can_copy_ = other.can_copy_,
                           !.can_move_ = other.can_move_], other, "ok")
    ELSE IF Occupied(other.slots_[i])
    THEN LET r == safe_move_construct(get_type_ops(other.slots_[i].ops), cf = i)
         IN  IF r.out # "ok"
             THEN Ret2(self, other, "terminate")
             ELSE a_move_from_loop(
                      [self EXCEPT !.storage_[i] = r.obj,
                                   !.slots_[i]   = [ptr |-> <<c, i>>,
                                                    ops |-> other.slots_[i].ops]],
                      c, a_destroy_at(other, i), i + 1, cf)
    ELSE a_move_from_loop(self, c, other, i + 1, cf)

\* poly_array::move_from(other)
a_move_from(self, c, other, cf) == a_move_from_loop(self, c, other, 0, cf)

\* poly_array(const poly_array& other)
a_copy_construct(c, other, cf) ==
    IF ~other.can_copy_
    THEN Ret(poly_array_default, "logic_error")
    ELSE a_copy_from(poly_array_default, c, other, cf)

\* poly_array(poly_array&& other)
a_move_construct(c, other, cf) ==
    a_move_from(poly_array_default, c, other, cf)

\* poly_array::operator=(const poly_array& other), this != &other
a_copy_assign(self, c, other, cf) ==
    IF ~other.can_copy_
    THEN Ret(self, "logic_error")
    ELSE a_copy_from(a_clear(self), c, other, cf)

\* poly_array::operator=(const poly_array& other), this == &other
a_copy_assign_self(self) ==
    IF ~self.can_copy_
    THEN Ret(self, "logic_error")
    ELSE Ret(self, "ok")

\* poly_array::operator=(poly_array&& other), this != &other
a_move_assign(self, c, other, cf) ==
    a_move_from(a_clear(self), c, other, cf)

\* ------------------------------------------------------------------------
\* The calls a program makes on its container objects
\* ------------------------------------------------------------------------

\* the process has not been ended by std::terminate
Running == ~halted

\* positions and sizes a caller passes, one beyond the largest valid one
VArgs == 0 .. Capacity + 1

AArgs == 0 .. N

\* which copy construction of a call throws, if any: the index of an occupant
\* the call may copy, for a relocation (used when the variant has no move
\* constructor) and for a whole-container copy
RelocThrows(self) ==
    {NoThrow} \cup {i \in DOMAIN self.slots_ :
                       /\ Occupied(self.slots_[i])
                       /\ get_type_ops(self.slots_[i].ops).copy_construct
                       /\ ~get_type_ops(self.slots_[i].ops).move_construct}

CopyThrows(self) ==
    {NoThrow} \cup {i \in DOMAIN self.slots_ :
                       /\ Occupied(self.slots_[i])
                       /\ get_type_ops(self.slots_[i].ops).copy_construct}

\* slots in use of a poly_vector: the elements and whatever else its storage
\* and slot-info still hold
v_in_use(self) ==
    Cardinality({i \in VSlots : \/ i < self.size_
                                \/ self.storage_[i] # NONE
                                \/ self.slots_[i] # EmptySlot})

\* slots in use of a poly_array
a_in_use(self) ==
    Cardinality({i \in ASlots : \/ self.storage_[i] # NONE
                                \/ self.slots_[i] # EmptySlot})

\* slots in use over all objects
RECURSIVE Total(_, _, _)
Total(S, vs, as) ==
    IF S = {}
    THEN 0
    ELSE LET c == CHOOSE x \in S : TRUE
         IN  v_in_use(vs[c]) + a_in_use(as[c]) + Total(S \ {c}, vs, as)

\* the run stays within MaxTotal
Bounded == Total(ContainerIds, vec', arr') <= MaxTotal

Init ==
    /\ kind \in {"vector", "array"}
    /\ alive = [c \in ContainerIds |-> c = 1]
    /\ vec = [c \in ContainerIds |-> poly_vector_default]
    /\ arr = [c \in ContainerIds |-> poly_array_default]
    /\ halted = FALSE
    /\ reloc = NoCall

\* poly_vector() = default
VDefaultConstruct(c) ==
    /\ kind = "vector" /\ Running /\ ~alive[c]
    /\ vec' = [vec EXCEPT ![c] = poly_vector_default]
    /\ alive' = [alive EXCEPT ![c] = TRUE]
    /\ halted' = FALSE
    /\ UNCHANGED <<kind, arr, reloc>>
    /\ Bounded

\* poly_vector(const poly_vector& other): an exception leaves no object c
VCopyConstruct(c, o, cf) ==
    /\ kind = "vector" /\ Running /\ ~alive[c] /\ alive[o]
    /\ LET r == v_copy_construct(c, vec[o], cf)
       IN  /\ vec' = [vec EXCEPT ![c] = IF r.out = "ok" THEN r.self
                                                        ELSE poly_vector_default]
           /\ alive' = [alive EXCEPT ![c] = r.out = "ok"]
           /\ halted' = (r.out = "terminate")
    /\ UNCHANGED <<kind, arr, reloc>>
    /\ Bounded

\* poly_vector(poly_vector&& other)
VMoveConstruct(c, o, cf) ==
    /\ kind = "vector" /\ Running /\ ~alive[c] /\ alive[o]
    /\ LET r == v_move_construct(c, vec[o], cf)
       IN  /\ vec' = [vec EXCEPT ![c] = r.self, ![o] = r.other]
           /\ alive' = [alive EXCEPT ![c] = r.out = "ok"]
           /\ halted' = (r.out = "terminate")
    /\ UNCHANGED <<kind, arr, reloc>>
    /\ Bounded

\* poly_vector::operator=(const poly_vector& other)
VCopyAssign(c, o, cf) ==
    /\ kind = "vector" /\ Running /\ alive[c] /\ alive[o]
    /\ LET r == IF c = o THEN v_copy_assign_self(vec[c])
                         ELSE v_copy_assign(vec[c], c, vec[o], cf)
       IN  /\ vec' = [vec EXCEPT ![c] = r.self]
           /\ halted' = (r.out = "terminate")
    /\ UNCHANGED <<kind, alive, arr, reloc>>
    /\ Bounded

\* poly_vector::operator=(poly_vector&& other); nothing happens when
\* this == &other
VMoveAssign(c, o, cf) ==
    /\ kind = "vector" /\ Running /\ alive[c] /\ alive[o]
    /\ LET r == IF c = o THEN Ret2(vec[c], vec[c], "ok")
                         ELSE v_move_assign(vec[c], c, vec[o], cf)
       IN  /\ vec' = [vec EXCEPT ![c] = r.self, ![o] = r.other]
           /\ halted' = (r.out = "terminate")
    /\ UNCHANGED <<kind, alive, arr, reloc>>
    /\ Bounded

\* ~poly_vector(): clear(), then the object is gone
VDestroy(c) ==
    /\ kind = "vector" /\ Running /\ alive[c]
    /\ vec' = [vec EXCEPT ![c] = poly_vector_default]
    /\ alive' = [alive EXCEPT ![c] = FALSE]
    /\ halted' = FALSE
    /\ UNCHANGED <<kind, arr, reloc>>
    /\ Bounded

VEmplaceBack(c, Derived, ctor_throws) ==
    /\ kind = "vector" /\ Running /\ alive[c]
    /\ LET r == v_emplace_back(vec[c], c, Derived, ctor_throws)
       IN  /\ vec' = [vec EXCEPT ![c] = r.self]
           /\ halted' = (r.out = "terminate")
    /\ UNCHANGED <<kind, alive, arr, reloc>>
    /\ Bounded

VEmplace(c, index, Derived, ctor_throws, cf) ==
    /\ kind = "vector" /\ Running /\ alive[c]
    /\ LET r == v_emplace(vec[c], c, index, Derived, ctor_throws, cf)
       IN  /\ vec' = [vec EXCEPT ![c] = r.self]
           /\ halted' = (r.out = "terminate")
    /\ UNCHANGED <<kind, alive, arr, reloc>>
    /\ Bounded

VPopBack(c) ==
    /\ kind = "vector" /\ Running /\ alive[c]
    /\ LET r == v_pop_back(vec[c])
       IN  /\ vec' = [vec EXCEPT ![c] = r.self]
           /\ halted' = (r.out = "terminate")
    /\ UNCHANGED <<kind, alive, arr, reloc>>
    /\ Bounded

VErase(c, index, cf) ==
    /\ kind = "vector" /\ Running /\ alive[c]
    /\ LET r == v_erase(vec[c], c, index, cf)
       IN  /\ vec' = [vec EXCEPT ![c] = r.self]
           /\ halted' = (r.out = "terminate")
    /\ UNCHANGED <<kind, alive, arr, reloc>>
    /\ Bounded

VEraseRange(c, first_index, last_index, cf) ==
    /\ kind = "vector" /\ Running /\ alive[c]
    /\ LET r == v_erase_range(vec[c], c, first_index, last_index, cf)
       IN  /\ vec' = [vec EXCEPT ![c] = r.self]
           /\ halted' = (r.out = "terminate")
    /\ UNCHANGED <<kind, alive, arr, reloc>>
    /\ Bounded

VClear(c) ==
    /\ kind = "vector" /\ Running /\ alive[c]
    /\ vec' = [vec EXCEPT ![c] = v_clear(vec[c])]
    /\ halted' = FALSE
    /\ UNCHANGED <<kind, alive, arr, reloc>>
    /\ Bounded

VResize(c, new_size) ==
    /\ kind = "vector" /\ Running /\ alive[c]
    /\ LET r == v_resize(vec[c], new_size)
       IN  /\ vec' = [vec EXCEPT ![c] = r.self]
           /\ halted' = (r.out = "terminate")
    /\ UNCHANGED <<kind, alive, arr, reloc>>
    /\ Bounded

VAt(c, index) ==
    /\ kind = "vector" /\ Running /\ alive[c]
    /\ vec' = [vec EXCEPT ![c] = v_at(vec[c], index).self]
    /\ halted' = FALSE
    /\ UNCHANGED <<kind, alive, arr, reloc>>

VFront(c) ==
    /\ kind = "vector" /\ Running /\ alive[c]
    /\ vec' = [vec EXCEPT ![c] = v_front(vec[c]).self]
    /\ halted' = FALSE
    /\ UNCHANGED <<kind, alive, arr, reloc>>

VBack(c) ==
    /\ kind = "vector" /\ Running /\ alive[c]
    /\ vec' = [vec EXCEPT ![c] = v_back(vec[c]).self]
    /\ halted' = FALSE
    /\ UNCHANGED <<kind, alive, arr, reloc>>

VBegin(c) ==
    /\ kind = "vector" /\ Running /\ alive[c]
    /\ vec' = [vec EXCEPT ![c] = v_begin(vec[c])]
    /\ halted' = FALSE
    /\ UNCHANGED <<kind, alive, arr, reloc>>

VReserve(c, new_cap) ==
    /\ kind = "vector" /\ Running /\ alive[c]
    /\ vec' = [vec EXCEPT ![c] = v_reserve(vec[c], new_cap).self]
    /\ halted' = FALSE
    /\ UNCHANGED <<kind, alive, arr, reloc>>

VShrinkToFit(c) ==
    /\ kind = "vector" /\ Running /\ alive[c]
    /\ vec' = [vec EXCEPT ![c] = v_shrink_to_fit(vec[c]).self]
    /\ halted' = FALSE
    /\ UNCHANGED <<kind, alive, arr, reloc>>

\* poly_array() = default
ADefaultConstruct(c) ==
    /\ kind = "array" /\ Running /\ ~alive[c]
    /\ arr' = [arr EXCEPT ![c] = poly_array_default]
    /\ alive' = [alive EXCEPT ![c] = TRUE]
    /\ halted' = FALSE
    /\ UNCHANGED <<kind, vec, reloc>>
    /\ Bounded

\* poly_array(const poly_array& other): an exception leaves no object c
ACopyConstruct(c, o, cf) ==
    /\ kind = "array" /\ Running /\ ~alive[c] /\ alive[o]
    /\ LET r == a_copy_construct(c, arr[o], cf)
       IN  /\ arr' = [arr EXCEPT ![c] = IF r.out = "ok" THEN r.self
                                                        ELSE poly_array_default]
           /\ alive' = [alive EXCEPT ![c] = r.out = "ok"]
           /\ halted' = (r.out = "terminate")
    /\ UNCHANGED <<kind, vec, reloc>>
    /\ Bounded

\* poly_array(poly_array&& other)
AMoveConstruct(c, o, cf) ==
    /\ kind = "array" /\ Running /\ ~alive[c] /\ alive[o]
    /\ LET r == a_move_construct(c, arr[o], cf)
       IN  /\ arr' = [arr EXCEPT ![c] = r.self, ![o] = r.other]
           /\ alive' = [alive EXCEPT ![c] = r.out = "ok"]
           /\ halted' = (r.out = "terminate")
    /\ UNCHANGED <<kind, vec, reloc>>
    /\ Bounded

\* poly_array::operator=(const poly_array& other)
ACopyAssign(c, o, cf) ==
    /\ kind = "array" /\ Running /\ alive[c] /\ alive[o]
    /\ LET r == IF c = o THEN a_copy_assign_self(arr[c])
                         ELSE a_copy_assign(arr[c], c, arr[o], cf)
       IN  /\ arr' = [arr EXCEPT ![c] = r.self]
           /\ halted' = (r.out = "terminate")
    /\ UNCHANGED <<kind, alive, vec, reloc>>
    /\ Bounded

\* poly_array::operator=(poly_array&& other); nothing happens when
\* this == &other
AMoveAssign(c, o, cf) ==
    /\ kind = "array" /\ Running /\ alive[c] /\ alive[o]
    /\ LET r == IF c = o THEN Ret2(arr[c], arr[c], "ok")
                         ELSE a_move_assign(arr[c], c, arr[o], cf)
       IN  /\ arr' = [arr EXCEPT ![c] = r.self, ![o] = r.other]
           /\ halted' = (r.out = "terminate")
    /\ UNCHANGED <<kind, alive, vec, reloc>>
    /\ Bounded

\* ~poly_array(): clear(), then the object is gone
ADestroy(c) ==
    /\ kind = "array" /\ Running /\ alive[c]
    /\ arr' = [arr EXCEPT ![c] = poly_array_default]
    /\ alive' = [alive EXCEPT ![c] = FALSE]
    /\ halted' = FALSE
    /\ UNCHANGED <<kind, vec, reloc>>
    /\ Bounded

AEmplace(c, index, Derived, ctor_throws) ==
    /\ kind = "array" /\ Running /\ alive[c]
    /\ LET r == a_emplace(arr[c], c, index, Derived, ctor_throws)
       IN  /\ arr' = [arr EXCEPT ![c] = r.self]
           /\ halted' = (r.out = "terminate")
    /\ UNCHANGED <<kind, alive, vec, reloc>>
    /\ Bounded

AClear(c) ==
    /\ kind = "array" /\ Running /\ alive[c]
    /\ arr' = [arr EXCEPT ![c] = a_clear(arr[c])]
    /\ halted' = FALSE
    /\ UNCHANGED <<kind, alive, vec, reloc>>
    /\ Bounded

AAt(c, index) ==
    /\ kind = "array" /\ Running /\ alive[c]
    /\ arr' = [arr EXCEPT ![c] = a_at(arr[c], index).self]
    /\ halted' = FALSE
    /\ UNCHANGED <<kind, alive, vec, reloc>>

ABegin(c) ==
    /\ kind = "array" /\ Running /\ alive[c]
    /\ arr' = [arr EXCEPT ![c] = a_data(arr[c])]
    /\ halted' = FALSE
    /\ UNCHANGED <<kind, alive, vec, reloc>>

\* whether the constructor of a variant may throw: the variant Copyable has
\* a constructor that can fail (tests: ThrowingAnimal), the others have not
CtorThrows(T) == IF T = "Copyable" THEN BOOLEAN ELSE {FALSE}

\* resize(new_size) with new_size > size(): the growing branch of resize
VResizeGrow(c, new_size) == new_size > vec[c].size_ /\ VResize(c, new_size)

\* resize(new_size) with new_size <= size(): the shrinking branch of resize
VResizeShrink(c, new_size) == new_size <= vec[c].size_ /\ VResize(c, new_size)

\* the calls on the elements of poly_vector object c that do not grow it by
\* resize
VNoGrowCall(c) ==
    \/ \E T \in Variants : \E th \in CtorThrows(T) : VEmplaceBack(c, T, th)
    \/ \E i \in VArgs, T \in Variants : \E th \in CtorThrows(T) :
          \E cf \in RelocThrows(vec[c]) : VEmplace(c, i, T, th, cf)
    \/ VPopBack(c)
    \/ \E i \in VArgs : \E cf \in RelocThrows(vec[c]) : VErase(c, i, cf)
    \/ \E i, j \in VArgs : \E cf \in RelocThrows(vec[c]) :
          VEraseRange(c, i, j, cf)
    \/ VClear(c)
    \/ \E n \in VArgs : VResizeShrink(c, n)
    \/ \E i \in VArgs : VAt(c, i)
    \/ VFront(c)
    \/ VBack(c)
    \/ \E n \in VArgs : VReserve(c, n)
    \/ VShrinkToFit(c)

\* the calls on the elements of poly_vector object c
VElementCall(c) ==
    \/ VNoGrowCall(c)
    \/ \E n \in VArgs : VResizeGrow(c, n)

\* the calls on the slots of poly_array object c
AElementCall(c) ==
    \/ \E i \in AArgs, T \in Variants :
          \E th \in CtorThrows(T) : AEmplace(c, i, T, th)
    \/ AClear(c)
    \/ \E i \in AArgs : AAt(c, i)

\* construction, destruction, whole-container copy and move of poly_vector
VWholeCall ==
    \/ \E c \in ContainerIds : VDefaultConstruct(c)
    \/ \E c, o \in ContainerIds : \E cf \in CopyThrows(vec[o]) :
          VCopyConstruct(c, o, cf)
    \/ \E c, o \in ContainerIds : \E cf \in RelocThrows(vec[o]) :
          VMoveConstruct(c, o, cf)
    \/ \E c, o \in ContainerIds : \E cf \in CopyThrows(vec[o]) :
          VCopyAssign(c, o, cf)
    \/ \E c, o \in ContainerIds : \E cf \in RelocThrows(vec[o]) :
          VMoveAssign(c, o, cf)
    \/ \E c \in ContainerIds : VDestroy(c)

\* the calls on poly_array objects
ACall ==
    \/ \E c \in ContainerIds : ADefaultConstruct(c)
    \/ \E c, o \in ContainerIds : \E cf \in CopyThrows(arr[o]) :
          ACopyConstruct(c, o, cf)
    \/ \E c, o \in ContainerIds : \E cf \in RelocThrows(arr[o]) :
          AMoveConstruct(c, o, cf)
    \/ \E c, o \in ContainerIds : \E cf \in CopyThrows(arr[o]) :
          ACopyAssign(c, o, cf)
    \/ \E c, o \in ContainerIds : \E cf \in RelocThrows(arr[o]) :
          AMoveAssign(c, o, cf)
    \/ \E c \in ContainerIds : ADestroy(c)
    \/ \E c \in ContainerIds : AElementCall(c)

\* Two objects of one class.  The elements of the poly_vector objects are
\* worked on through object 1; object 2 is constructed, assigned, cleared and
\* destroyed as a whole, so it takes every content object 1 can give it.
Next ==
    \/ VElementCall(1)
    \/ VClear(2)
    \/ VWholeCall
    \/ ACall

Spec == Init /\ [][Next]_vars

\* One poly_vector object and the calls on its elements.
InitV ==
    /\ kind = "vector"
    /\ alive = [c \in ContainerIds |-> c = 1]
    /\ vec = [c \in ContainerIds |-> poly_vector_default]
    /\ arr = [c \in ContainerIds |-> poly_array_default]
    /\ halted = FALSE
    /\ reloc = NoCall

NextV == VElementCall(1) \/ VBegin(1)

SpecV == InitV /\ [][NextV]_vars

\* One poly_vector object that starts empty and is never grown by resize.
NextNoGrow == VNoGrowCall(1) \/ VBegin(1)

SpecNoGrow == InitV /\ [][NextNoGrow]_vars

\* One object of either class and the calls on its elements.
NextE == VElementCall(1) \/ VBegin(1) \/ AElementCall(1) \/ ABegin(1)

SpecE == Init /\ [][NextE]_vars

\* Two poly_array objects, every call on them and traversals.
InitA ==
    /\ kind = "array"
    /\ alive = [c \in ContainerIds |-> c = 1]
    /\ vec = [c \in ContainerIds |-> poly_vector_default]
    /\ arr = [c \in ContainerIds |-> poly_array_default]
    /\ halted = FALSE
    /\ reloc = NoCall

NextA == ACall \/ (\E c \in ContainerIds : ABegin(c))

SpecA == InitA /\ [][NextA]_vars

\* Direct calls of safe_move_construct and safe_copy_construct on any
\* operation table: the functions take a type_operations by reference,
\* whatever its fields hold.
Tables ==
    [variant               : Variants,
     size                  : 1 .. MaxSize,
     destroy               : {TRUE},
     move_construct        : BOOLEAN,
     copy_construct        : BOOLEAN,
     is_trivially_copyable : BOOLEAN,
     is_copy_constructible : BOOLEAN,
     is_move_constructible : BOOLEAN]

\* before the call: src holds an object of the table's variant, dst is raw
\* storage
InitOps ==
    /\ kind = "ops"
    /\ alive = [c \in ContainerIds |-> FALSE]
    /\ vec = [c \in ContainerIds |-> poly_vector_default]
    /\ arr = [c \in ContainerIds |-> poly_array_default]
    /\ halted = FALSE
    /\ \E t \in Tables, th \in BOOLEAN :
          reloc = [call |-> "pending", table |-> t, copy_throws |-> th,
                   src |-> t.variant, dst |-> NONE,
                   out |-> NONE, how |-> NONE, bytes |-> 0]

\* safe_move_construct(dst, src, reloc.table)
SafeMoveConstruct ==
    /\ kind = "ops" /\ reloc.call = "pending"
    /\ LET r == safe_move_construct(reloc.table, reloc.copy_throws)
       IN  reloc' = [reloc EXCEPT !.call = "done", !.dst = r.obj, !.out = r.out,
                                  !.how = r.how, !.bytes = r.bytes]
    /\ UNCHANGED <<kind, alive, vec, arr, halted>>

\* safe_copy_construct(dst, src, reloc.table)
SafeCopyConstruct ==
    /\ kind = "ops" /\ reloc.call = "pending"
    /\ LET r == safe_copy_construct(reloc.table, reloc.copy_throws)
       IN  reloc' = [reloc EXCEPT !.call = "copied", !.dst = r.obj,
                                  !.out = r.out, !.how = r.how,
                                  !.bytes = r.bytes]
    /\ UNCHANGED <<kind, alive, vec, arr, halted>>

NextOps == SafeMoveConstruct \/ SafeCopyConstruct

SpecOps == InitOps /\ [][NextOps]_vars

\* the threads that request operation tables
NumThreads == 2

Threads == 1 .. NumThreads

\* a static local variable whose initialisation is guarded: what a thread
\* that reaches the declaration does, by the state of the guard
\* (a thread that finds the initialisation running waits for it)
static_local_unguarded(guard) ==
    IF guard = "done" THEN "use" ELSE "create"

static_local(guard) ==
    CASE guard = "uninit" -> "create"
      [] guard = "busy"   -> "wait"
      [] guard = "done"   -> "use"

\* the storage of a static table before its initialisation
NoTable == [variant |-> NONE]

\* no table is built, every thread is outside get()
InitGet ==
    /\ kind = "get"
    /\ alive = [c \in ContainerIds |-> FALSE]
    /\ vec = [c \in ContainerIds |-> poly_vector_default]
    /\ arr = [c \in ContainerIds |-> poly_array_default]
    /\ halted = FALSE
    /\ reloc = [call  |-> "get",
                guard |-> [T \in Variants |-> "uninit"],
                ops   |-> [T \in Variants |-> NoTable],
                built |-> [T \in Variants |-> 0],
                pc    |-> [t \in Threads |-> "idle"],
                T     |-> [t \in Threads |-> NONE],
                got   |-> [t \in Threads |-> NoTable]]

\* thread t calls get_type_ops<T>(), on behalf of any container
GetTypeOps(t, T) ==
    /\ kind = "get" /\ reloc.pc[t] = "idle"
    /\ reloc' = [reloc EXCEPT !.pc[t] = "enter", !.T[t] = T, !.got[t] = NoTable]
    /\ UNCHANGED <<kind, alive, vec, arr, halted>>

\* thread t reaches the declaration of the static table in get()
GetEnter(t) ==
    /\ kind = "get" /\ reloc.pc[t] = "enter"
    /\ LET T  == reloc.T[t]
           do == static_local(reloc.guard[T])
       IN  /\ do # "wait"
           /\ reloc' = IF do = "create"
                          THEN [reloc EXCEPT !.guard[T] = "busy",
                                             !.pc[t] = "create"]
                          ELSE [reloc EXCEPT !.pc[t] = "return"]
    /\ UNCHANGED <<kind, alive, vec, arr, halted>>

\* thread t initialises the static table with create()
GetCreate(t) ==
    /\ kind = "get" /\ reloc.pc[t] = "create"
    /\ LET T == reloc.T[t]
       IN  reloc' = [reloc EXCEPT !.ops[T] = create(T),
                                  !.built[T] = @ + 1,
                                  !.guard[T] = "done",
                                  !.pc[t] = "return"]
    /\ UNCHANGED <<kind, alive, vec, arr, halted>>

\* get() returns the reference to the static table; the caller reads it
GetReturn(t) ==
    /\ kind = "get" /\ reloc.pc[t] = "return"
    /\ reloc' = [reloc EXCEPT !.got[t] = reloc.ops[reloc.T[t]],
                              !.pc[t] = "idle"]
    /\ UNCHANGED <<kind, alive, vec, arr, halted>>

NextGet ==
    \E t \in Threads :
       \/ \E T \in Variants : GetTypeOps(t, T)
       \/ GetEnter(t)
       \/ GetCreate(t)
       \/ GetReturn(t)

SpecGet == InitGet /\ [][NextGet]_vars

\* ------------------------------------------------------------------------
\* What a caller observes
\* ------------------------------------------------------------------------

\* is_copyable() / is_movable()
is_copyable(self) == self.can_copy_

is_movable(self) == self.can_move_

\* the value read through a pointer of a container: the object its storage
\* holds there, NONE for nullptr
Pointee(self, ptr) == IF ptr = NULL THEN NONE ELSE self.storage_[ptr[2]]

\* poly_vector: [at(0), ..., at(size() - 1)] as values
v_contents(self) ==
    [k \in 1 .. self.size_ |-> Pointee(self, self.slots_[k - 1].ptr)]

\* poly_array: [at(0), ..., at(N - 1)] as values
a_contents(self) == [k \in 1 .. N |-> Pointee(self, self.slots_[k - 1].ptr)]

\* the occupied positions: those whose pointer is not null
v_occupied(self) == {i \in 0 .. self.size_ - 1 : self.slots_[i].ptr # NULL}

a_occupied(self) == {i \in ASlots : self.slots_[i].ptr # NULL}

\* every occupant at the positions occ is copy-constructible / move-constructible
AllCopyable(self, occ) ==
    \A i \in occ : is_copy_constructible_v(self.slots_[i].ops)

AllMovable(self, occ) ==
    \A i \in occ : is_move_constructible_v(self.slots_[i].ops)

\* the live objects of the run's class
VecIds == IF kind = "vector" THEN {c \in ContainerIds : alive[c]} ELSE {}

ArrIds == IF kind = "array" THEN {c \in ContainerIds : alive[c]} ELSE {}

\* ------------------------------------------------------------------------
\* Properties
\* ------------------------------------------------------------------------

\* C1: in every reachable state of a poly_vector and of a poly_array,
\* is_copyable() is true iff every occupied slot's variant is
\* copy-constructible and is_movable() is true iff every occupied slot's
\* variant is move-constructible; both are true when no slot is occupied.
FlagsExact ==
    /\ \A c \in VecIds :
          /\ is_copyable(vec[c]) <=> AllCopyable(vec[c], v_occupied(vec[c]))
          /\ is_movable(vec[c]) <=> AllMovable(vec[c], v_occupied(vec[c]))
    /\ \A c \in ArrIds :
          /\ is_copyable(arr[c]) <=> AllCopyable(arr[c], a_occupied(arr[c]))
          /\ is_movable(arr[c]) <=> AllMovable(arr[c], a_occupied(arr[c]))

\* C2: a whole-container copy (construction, assignment, self-assignment)
\* from a source whose is_copyable() is false ends with std::logic_error and
\* the target of an assignment is exactly as before; the source is passed
\* by const reference.
CopyOfNonCopyableChangesNothing ==
    /\ \A o \in VecIds : ~is_copyable(vec[o]) =>
          \A c \in ContainerIds, cf \in CopyThrows(vec[o]) :
             /\ ~alive[c] =>
                   v_copy_construct(c, vec[o], cf).out = "logic_error"
             /\ alive[c] /\ c # o =>
                   v_copy_assign(vec[c], c, vec[o], cf)
                      = Ret(vec[c], "logic_error")
             /\ c = o => v_copy_assign_self(vec[c]) = Ret(vec[c], "logic_error")
    /\ \A o \in ArrIds : ~is_copyable(arr[o]) =>
          \A c \in ContainerIds, cf \in CopyThrows(arr[o]) :
             /\ ~alive[c] =>
                   a_copy_construct(c, arr[o], cf).out = "logic_error"
             /\ alive[c] /\ c # o =>
                   a_copy_assign(arr[c], c, arr[o], cf)
                      = Ret(arr[c], "logic_error")
             /\ c = o => a_copy_assign_self(arr[c]) = Ret(arr[c], "logic_error")

\* C2 witness: a poly_vector with elements is assigned from one that holds a
\* MoveOnly element, and a poly_array likewise
CopyOfNonCopyableRefused ==
    \/ \E c, o \in VecIds :
          /\ c # o /\ vec[c].size_ > 0 /\ ~is_copyable(vec[o])
          /\ \E i \in v_occupied(vec[o]) : vec[o].slots_[i].ops = "MoveOnly"
          /\ v_copy_assign(vec[c], c, vec[o], NoThrow).out = "logic_error"
    \/ \E c, o \in ArrIds :
          /\ c # o /\ a_occupied(arr[c]) # {} /\ ~is_copyable(arr[o])
          /\ \E i \in a_occupied(arr[o]) : arr[o].slots_[i].ops = "MoveOnly"
          /\ a_copy_assign(arr[c], c, arr[o], NoThrow).out = "logic_error"

\* C3: a whole-container copy ends with "not copyable" (std::logic_error
\* from the container, std::runtime_error from safe_copy_construct) only if
\* some occupant of the source is not copy-constructible; a source without
\* occupants can be copied.
NotCopyableOnlyForNonCopyableOccupant ==
    /\ \A o \in VecIds : AllCopyable(vec[o], v_occupied(vec[o])) =>
          \A c \in ContainerIds, cf \in CopyThrows(vec[o]) :
             /\ ~alive[c] =>
                   v_copy_construct(c, vec[o], cf).out
                      \notin {"logic_error", "runtime_error"}
             /\ alive[c] /\ c # o =>
                   v_copy_assign(vec[c], c, vec[o], cf).out
                      \notin {"logic_error", "runtime_error"}
    /\ \A o \in ArrIds : AllCopyable(arr[o], a_occupied(arr[o])) =>
          \A c \in ContainerIds, cf \in CopyThrows(arr[o]) :
             /\ ~alive[c] =>
                   a_copy_construct(c, arr[o], cf).out
                      \notin {"logic_error", "runtime_error"}
             /\ alive[c] /\ c # o =>
                   a_copy_assign(arr[c], c, arr[o], cf).out
                      \notin {"logic_error", "runtime_error"}

\* the sequence s with x inserted before its element number i + 1
InsertAt(s, i, x) ==
    [k \in 1 .. Len(s) + 1 |-> IF k <= i THEN s[k]
                               ELSE IF k = i + 1 THEN x ELSE s[k - 1]]

\* the sequence s without its elements number i + 1 .. j
RemoveRange(s, i, j) ==
    [k \in 1 .. Len(s) - (j - i) |-> IF k <= i THEN s[k] ELSE s[k + (j - i)]]

\* the members a caller can observe agree: size, slot-info, objects, flags
SameContainer(a, b) ==
    /\ a.size_ = b.size_
    /\ a.slots_ = b.slots_
    /\ a.storage_ = b.storage_
    /\ a.can_copy_ = b.can_copy_
    /\ a.can_move_ = b.can_move_

\* C4: a whole-container copy that succeeds yields a container with the
\* source's values at the source's positions (same size for poly_vector),
\* every occupant an object in the destination's own storage.
CopyYieldsEqualContents ==
    /\ \A o \in VecIds : \A c \in ContainerIds \ {o} :
          \A cf \in CopyThrows(vec[o]) :
             LET r == IF alive[c] THEN v_copy_assign(vec[c], c, vec[o], cf)
                                  ELSE v_copy_construct(c, vec[o], cf)
             IN  r.out = "ok" =>
                    /\ r.self.size_ = vec[o].size_
                    /\ v_contents(r.self) = v_contents(vec[o])
                    /\ \A i \in v_occupied(r.self) :
                          r.self.slots_[i].ptr = <<c, i>>
    /\ \A o \in ArrIds : \A c \in ContainerIds \ {o} :
          \A cf \in CopyThrows(arr[o]) :
             LET r == IF alive[c] THEN a_copy_assign(arr[c], c, arr[o], cf)
                                  ELSE a_copy_construct(c, arr[o], cf)
             IN  r.out = "ok" =>
                    /\ a_contents(r.self) = a_contents(arr[o])
                    /\ \A i \in a_occupied(r.self) :
                          r.self.slots_[i].ptr = <<c, i>>

\* C5: a whole-container move that completes yields a destination with the
\* source's values at the source's positions and leaves the source with
\* size 0 (poly_vector) or with every slot empty (poly_array).
MoveYieldsContentsAndEmptiesSource ==
    /\ \A o \in VecIds : \A c \in ContainerIds \ {o} :
          \A cf \in RelocThrows(vec[o]) :
             LET r == IF alive[c] THEN v_move_assign(vec[c], c, vec[o], cf)
                                  ELSE v_move_construct(c, vec[o], cf)
             IN  r.out = "ok" =>
                    /\ v_contents(r.self) = v_contents(vec[o])
                    /\ r.other.size_ = 0
    /\ \A o \in ArrIds : \A c \in ContainerIds \ {o} :
          \A cf \in RelocThrows(arr[o]) :
             LET r == IF alive[c] THEN a_move_assign(arr[c], c, arr[o], cf)
                                  ELSE a_move_construct(c, arr[o], cf)
             IN  r.out = "ok" =>
                    /\ a_contents(r.self) = a_contents(arr[o])
                    /\ a_occupied(r.other) = {}

\* C6: a whole-container move never ends the process, whatever the
\* occupants: std::terminate is never called.
WholeContainerMoveNeverFatal == ~halted

\* C7: a successful emplace at index i <= n of a poly_vector holding
\* [a0..a(n-1)], n < Capacity, yields [a0..a(i-1), new, ai..a(n-1)].
EmplaceInsertsAtIndex ==
    \A c \in VecIds : \A i \in 0 .. vec[c].size_, T \in Variants :
       \A cf \in RelocThrows(vec[c]) :
          LET r == v_emplace(vec[c], c, i, T, FALSE, cf)
          IN  vec[c].size_ < Capacity /\ r.out = "ok" =>
                 /\ r.self.size_ = vec[c].size_ + 1
                 /\ v_contents(r.self) = InsertAt(v_contents(vec[c]), i, T)

\* C8: a successful erase of [i, j), 0 <= i <= j <= n, from a poly_vector of
\* size n yields size n - (j - i) and the prefix before i followed by the
\* suffix from j on; erase(pos) is erase(pos, pos + 1).
EraseRemovesRange ==
    \A c \in VecIds : \A cf \in RelocThrows(vec[c]) :
       /\ \A j \in 0 .. vec[c].size_ : \A i \in 0 .. j :
             LET r == v_erase_range(vec[c], c, i, j, cf)
             IN  r.out = "ok" =>
                    /\ r.self.size_ = vec[c].size_ - (j - i)
                    /\ v_contents(r.self) = RemoveRange(v_contents(vec[c]), i, j)
       /\ \A i \in 0 .. vec[c].size_ - 1 :
             LET r == v_erase(vec[c], c, i, cf)
             IN  r.out = "ok" =>
                    /\ r.self.size_ = vec[c].size_ - 1
                    /\ v_contents(r.self)
                          = RemoveRange(v_contents(vec[c]), i, i + 1)

\* C8 witness: the first of three different elements can be erased, which
\* shifts two elements
EraseShiftsTwo ==
    \E c \in VecIds :
       /\ vec[c].size_ = 3
       /\ v_contents(vec[c]) = <<"Copyable", "MoveOnly", "Copyable">>
       /\ v_erase(vec[c], c, 0, NoThrow).out = "ok"
       /\ v_contents(v_erase(vec[c], c, 0, NoThrow).self)
             = <<"MoveOnly", "Copyable">>

\* C9: erase of a non-empty range that ends before size() while
\* is_movable() is false ends with std::runtime_error and size, slot-info,
\* objects and both flags are as before the call.
EraseRefusedBeforeDestruction ==
    \A c \in VecIds : ~is_movable(vec[c]) =>
       \A cf \in RelocThrows(vec[c]) :
          /\ \A j \in 0 .. vec[c].size_ - 1 : \A i \in 0 .. j - 1 :
                LET r == v_erase_range(vec[c], c, i, j, cf)
                IN  r.out = "runtime_error" /\ SameContainer(r.self, vec[c])
          /\ \A i \in 0 .. vec[c].size_ - 2 :
                LET r == v_erase(vec[c], c, i, cf)
                IN  r.out = "runtime_error" /\ SameContainer(r.self, vec[c])

\* C9 witness: three Immovable elements, erase of the middle one is refused
EraseOfImmovableRefused ==
    \E c \in VecIds :
       /\ v_contents(vec[c]) = <<"Immovable", "Immovable", "Immovable">>
       /\ ~is_movable(vec[c])
       /\ v_erase(vec[c], c, 1, NoThrow).out = "runtime_error"

\* C10: on a non-empty poly_vector pop_back() and every erase whose range
\* ends at size() succeed whatever the flags are: the objects of the removed
\* positions are destroyed, size() decreases by their number and the prefix
\* is unchanged.
SuffixRemovalSucceeds ==
    \A c \in VecIds : vec[c].size_ > 0 =>
       LET n == vec[c].size_
           \* r removed the positions i .. n - 1
           Removed(r, i) ==
              /\ r.out = "ok"
              /\ r.self.size_ = i
              /\ v_contents(r.self) = SubSeq(v_contents(vec[c]), 1, i)
              /\ \A k \in i .. n - 1 :
                    /\ r.self.slots_[k].ptr = NULL
                    /\ vec[c].slots_[k].ptr # NULL => r.self.storage_[k] = NONE
              /\ \A k \in 0 .. i - 1 :
                    /\ r.self.slots_[k] = vec[c].slots_[k]
                    /\ r.self.storage_[k] = vec[c].storage_[k]
       IN  /\ Removed(v_pop_back(vec[c]), n - 1)
           /\ \A cf \in RelocThrows(vec[c]) :
                 /\ \A i \in 0 .. n : Removed(v_erase_range(vec[c], c, i, n, cf), i)
                 /\ Removed(v_erase(vec[c], c, n - 1, cf), n - 1)

\* C10 witness: elements that can be neither copied nor moved, the last two
\* are erased and the last one is popped
SuffixOfImmovableRemoved ==
    \E c \in VecIds :
       /\ v_contents(vec[c]) = <<"Immovable", "Immovable", "Immovable">>
       /\ ~is_movable(vec[c]) /\ ~is_copyable(vec[c])
       /\ v_erase_range(vec[c], c, 1, 3, NoThrow).out = "ok"
       /\ v_erase_range(vec[c], c, 1, 3, NoThrow).self.size_ = 1
       /\ v_pop_back(vec[c]).out = "ok"
       /\ v_pop_back(vec[c]).self.size_ = 2

\* a variant safe_move_construct can relocate: by its move constructor, else
\* by its copy constructor
Relocatable(T) ==
    \/ is_trivially_copyable_v(T)
    \/ is_move_constructible_v(T)
    \/ is_copy_constructible_v(T)

\* C11: erase(first, last) on a poly_vector ends with std::runtime_error
\* (ShiftUnsupported) only if some occupant after the erased range can be
\* relocated neither by move nor by copy; when every occupant that has to be
\* shifted is relocatable (copy-constructible without a move constructor,
\* for example) the erase is not refused.
EraseRefusedOnlyWithoutRelocation ==
    \A c \in VecIds : \A cf \in RelocThrows(vec[c]) :
       \A j \in 0 .. vec[c].size_ : \A i \in 0 .. j :
          (\A k \in j .. vec[c].size_ - 1 :
              Occupied(vec[c].slots_[k]) => Relocatable(vec[c].slots_[k].ops))
          => v_erase_range(vec[c], c, i, j, cf).out # "runtime_error"

\* the exceptions by which the capacity checks end a call: std::out_of_range
\* from emplace_back, emplace and resize, std::length_error from reserve
CapacityExceeded(out) == out \in {"out_of_range", "length_error"}

\* C12: on a poly_vector, emplace_back and emplace(pos) at size() = Capacity,
\* resize(n) and reserve(n) with n > Capacity end with the exception of the
\* capacity check and leave size, slot-info, objects and flags as they were;
\* reserve(n) with n <= Capacity and shrink_to_fit() succeed and change
\* nothing.
CapacityExceededChangesNothing ==
    \A c \in VecIds :
       /\ vec[c].size_ = Capacity =>
             /\ \A T \in Variants, th \in BOOLEAN :
                   LET r == v_emplace_back(vec[c], c, T, th)
                   IN  CapacityExceeded(r.out) /\ SameContainer(r.self, vec[c])
             /\ \A T \in Variants, th \in BOOLEAN, i \in 0 .. vec[c].size_ :
                   \A cf \in RelocThrows(vec[c]) :
                      LET r == v_emplace(vec[c], c, i, T, th, cf)
                      IN  /\ CapacityExceeded(r.out)
                          /\ SameContainer(r.self, vec[c])
       /\ \A n \in Capacity + 1 .. Capacity + 2 :
             /\ CapacityExceeded(v_resize(vec[c], n).out)
             /\ SameContainer(v_resize(vec[c], n).self, vec[c])
             /\ CapacityExceeded(v_reserve(vec[c], n).out)
             /\ v_reserve(vec[c], n).self = vec[c]
       /\ \A n \in 0 .. Capacity : v_reserve(vec[c], n) = Ret(vec[c], "ok")
       /\ v_shrink_to_fit(vec[c]) = Ret(vec[c], "ok")

\* C12 witness: a full poly_vector of three different elements refuses
\* emplace_back, emplace at the front and resize beyond Capacity
FullVectorRefusesGrowth ==
    \E c \in VecIds :
       /\ vec[c].size_ = Capacity
       /\ Cardinality({vec[c].slots_[i].ops : i \in v_occupied(vec[c])}) >= 2
       /\ v_emplace_back(vec[c], c, "Copyable", FALSE).out = "out_of_range"
       /\ v_emplace(vec[c], c, 0, "Copyable", FALSE, NoThrow).out = "out_of_range"
       /\ v_resize(vec[c], Capacity + 1).out = "out_of_range"
       /\ v_reserve(vec[c], Capacity + 1).out = "length_error"

\* C13: when the constructor of the new element throws in emplace_back, the
\* poly_vector is as before: same size, same slot-info, same objects, same
\* flags.
FailedEmplaceBackChangesNothing ==
    \A c \in VecIds : vec[c].size_ < Capacity =>
       \A T \in Variants :
          LET r == v_emplace_back(vec[c], c, T, TRUE)
          IN  r.out = "exception" /\ SameContainer(r.self, vec[c])

\* C13 witness: a poly_vector with two different elements and room for a
\* third, whose constructor throws
EmplaceBackFailsOnElements ==
    \E c \in VecIds :
       /\ v_contents(vec[c]) = <<"MoveOnly", "Copyable">>
       /\ v_emplace_back(vec[c], c, "Copyable", TRUE).out = "exception"

\* C14: when the constructor of the new element throws in emplace at an
\* index i < size(), size() is as before, every index of [0, size()) holds
\* the object it held before and no object is stored at an index >= size().
FailedEmplaceKeepsElements ==
    \A c \in VecIds : \A i \in 0 .. vec[c].size_ - 1, T \in Variants :
       \A cf \in RelocThrows(vec[c]) :
          LET r == v_emplace(vec[c], c, i, T, TRUE, cf)
          IN  r.out = "exception" =>
                 /\ r.self.size_ = vec[c].size_
                 /\ \A k \in 0 .. vec[c].size_ - 1 :
                       /\ r.self.slots_[k] = vec[c].slots_[k]
                       /\ r.self.storage_[k] = vec[c].storage_[k]
                 /\ \A k \in VSlots :
                       k >= r.self.size_ => r.self.storage_[k] = NONE

\* C15: when the constructor throws in poly_array::emplace(index), slot
\* index is empty afterwards (at(index) is null, its previous occupant is
\* destroyed) and every other slot holds what it held before.
FailedArrayEmplaceEmptiesSlot ==
    \A c \in ArrIds : \A index \in ASlots, T \in Variants :
       LET r == a_emplace(arr[c], c, index, T, TRUE)
       IN  /\ r.out = "exception"
           /\ r.self.slots_[index] = EmptySlot
           /\ r.self.storage_[index] = NONE
           /\ a_at(r.self, index) = Acc(r.self, "ok", NULL)
           /\ \A j \in ASlots \ {index} :
                 /\ r.self.slots_[j] = arr[c].slots_[j]
                 /\ r.self.storage_[j] = arr[c].storage_[j]

\* C15 witness: both slots of a poly_array are occupied and emplace into the
\* first one fails
ArrayEmplaceFailsOnOccupiedSlot ==
    \E c \in ArrIds :
       /\ a_contents(arr[c]) = <<"MoveOnly", "Copyable">>
       /\ a_emplace(arr[c], c, 0, "Copyable", TRUE).out = "exception"
       /\ a_contents(a_emplace(arr[c], c, 0, "Copyable", TRUE).self)
             = <<NONE, "Copyable">>

\* C16: a position outside the valid bounds ends the call with
\* std::out_of_range and size, slot-info, objects and flags stay as they
\* were: poly_array::emplace with index >= N, poly_vector::emplace with
\* index > size(), erase(pos) with index >= size(), erase(first, last) with
\* first > last or last > size().
OutOfRangeChangesNothing ==
    /\ \A c \in ArrIds : \A index \in N .. N + 1, T \in Variants, th \in BOOLEAN :
          a_emplace(arr[c], c, index, T, th) = Ret(arr[c], "out_of_range")
    /\ \A c \in VecIds : \A cf \in RelocThrows(vec[c]) :
          /\ \A i \in vec[c].size_ + 1 .. Capacity + 1 :
                \A T \in Variants, th \in BOOLEAN :
                   LET r == v_emplace(vec[c], c, i, T, th, cf)
                   IN  r.out = "out_of_range" /\ SameContainer(r.self, vec[c])
          /\ \A i \in vec[c].size_ .. Capacity + 1 :
                LET r == v_erase(vec[c], c, i, cf)
                IN  r.out = "out_of_range" /\ SameContainer(r.self, vec[c])
          /\ \A i, j \in VArgs : i > j \/ j > vec[c].size_ =>
                LET r == v_erase_range(vec[c], c, i, j, cf)
                IN  r.out = "out_of_range" /\ SameContainer(r.self, vec[c])

\* C16 witness: a poly_vector of two elements is asked to insert at 3, to
\* erase at 2 and to erase [1, 0)
PositionBeyondTwoElements ==
    \E c \in VecIds :
       /\ v_contents(vec[c]) = <<"Copyable", "MoveOnly">>
       /\ v_emplace(vec[c], c, 3, "Copyable", FALSE, NoThrow).out = "out_of_range"
       /\ v_erase(vec[c], c, 2, NoThrow).out = "out_of_range"
       /\ v_erase_range(vec[c], c, 1, 0, NoThrow).out = "out_of_range"

\* C17: at, front and back leave the container as it is; poly_array::at(i)
\* throws iff i >= N, poly_vector::at(i) iff i >= size(), front(), back()
\* and pop_back() iff size() = 0; otherwise at(i) is the pointer of slot i,
\* null or the address of the live object in slot i, front() is at(0) and
\* back() is at(size() - 1).
AccessorsCheckedAndPure ==
    /\ \A c \in ArrIds : \A i \in 0 .. N + 1 :
          LET r == a_at(arr[c], i)
          IN  /\ r.self = arr[c]
              /\ r.out = "out_of_range" <=> i >= N
              /\ r.out \in {"ok", "out_of_range"}
              /\ r.out = "ok" =>
                    /\ r.ptr = arr[c].slots_[i].ptr
                    /\ r.ptr = NULL \/ (r.ptr = <<c, i>> /\ arr[c].storage_[i] # NONE)
    /\ \A c \in VecIds :
          /\ \A i \in 0 .. Capacity + 1 :
                LET r == v_at(vec[c], i)
                IN  /\ r.self = vec[c]
                    /\ r.out = "out_of_range" <=> i >= vec[c].size_
                    /\ r.out \in {"ok", "out_of_range"}
                    /\ r.out = "ok" =>
                          /\ r.ptr = vec[c].slots_[i].ptr
                          /\ r.ptr = NULL
                                \/ (r.ptr = <<c, i>> /\ vec[c].storage_[i] # NONE)
          /\ v_front(vec[c]).self = vec[c] /\ v_back(vec[c]).self = vec[c]
          /\ v_front(vec[c]).out = "out_of_range" <=> vec[c].size_ = 0
          /\ v_back(vec[c]).out = "out_of_range" <=> vec[c].size_ = 0
          /\ v_pop_back(vec[c]).out = "out_of_range" <=> vec[c].size_ = 0
          /\ vec[c].size_ = 0 => v_pop_back(vec[c]).self = vec[c]
          /\ vec[c].size_ > 0 =>
                /\ v_front(vec[c]) = v_at(vec[c], 0)
                /\ v_back(vec[c]) = v_at(vec[c], vec[c].size_ - 1)
                /\ v_pop_back(vec[c]).out = "ok"

\* C17 witness: a poly_vector whose first element is an object and whose
\* second is null; at(2) is out of range
AccessObjectAndNull ==
    \E c \in VecIds :
       /\ vec[c].size_ = 2
       /\ v_at(vec[c], 0) = Acc(vec[c], "ok", <<c, 0>>)
       /\ v_back(vec[c]) = Acc(vec[c], "ok", NULL)
       /\ v_at(vec[c], 2).out = "out_of_range"

\* C18: a successful poly_array::emplace(index), index < N, leaves slot
\* index holding the new object and every other slot as it was; the previous
\* occupant of the slot is destroyed before the new object is constructed:
\* at the moment of construction, which is the state the call leaves behind
\* when the constructor throws, the slot holds no live object.
ArrayEmplaceReplacesOneSlot ==
    \A c \in ArrIds : \A index \in ASlots, T \in Variants :
       LET r == a_emplace(arr[c], c, index, T, FALSE)
           t == a_emplace(arr[c], c, index, T, TRUE)
       IN  /\ r.out = "ok"
           /\ r.self.slots_[index] = [ptr |-> <<c, index>>, ops |-> T]
           /\ r.self.storage_[index] = T
           /\ a_at(r.self, index).ptr = <<c, index>>
           /\ t.self.storage_[index] = NONE
           /\ \A j \in ASlots \ {index} :
                 /\ r.self.slots_[j] = arr[c].slots_[j]
                 /\ r.self.storage_[j] = arr[c].storage_[j]

\* C18 witness: both slots of a poly_array are occupied and the first one
\* is given a new object of another variant
ArrayEmplaceOverOccupant ==
    \E c \in ArrIds :
       /\ a_contents(arr[c]) = <<"Copyable", "Immovable">>
       /\ a_contents(a_emplace(arr[c], c, 0, "MoveOnly", FALSE).self)
             = <<"MoveOnly", "Immovable">>

\* C19: resize(n), n <= Capacity, sets size() to n.  Shrinking destroys the
\* objects of [n, old size) and no others, and keeps [0, n) as it was;
\* growing keeps [0, old size) as it was and every position of
\* [old size, n) reads as null.
ResizeSetsSize ==
    \A c \in VecIds : \A n \in 0 .. Capacity :
       LET old == vec[c].size_
           r   == v_resize(vec[c], n)
           Low == IF n < old THEN n ELSE old
       IN  /\ r.out = "ok"
           /\ r.self.size_ = n
           /\ \A k \in 0 .. Low - 1 :
                 /\ r.self.slots_[k] = vec[c].slots_[k]
                 /\ r.self.storage_[k] = vec[c].storage_[k]
           /\ \A k \in n .. old - 1 :
                 /\ r.self.slots_[k].ptr = NULL
                 /\ r.self.storage_[k]
                       = IF Occupied(vec[c].slots_[k]) THEN NONE
                                                       ELSE vec[c].storage_[k]
           /\ n <= old =>
                 \A k \in old .. Capacity - 1 :
                    r.self.storage_[k] = vec[c].storage_[k]
           /\ \A k \in old .. n - 1 : v_at(r.self, k) = Acc(r.self, "ok", NULL)
           /\ n <= old => v_contents(r.self) = SubSeq(v_contents(vec[c]), 1, n)
           /\ n >= old =>
                 v_contents(r.self)
                    = v_contents(vec[c]) \o [k \in 1 .. n - old |-> NONE]

\* C19 witness: a poly_vector of two elements is shrunk to one and grown to
\* three
ResizeTwoElements ==
    \E c \in VecIds :
       /\ v_contents(vec[c]) = <<"Copyable", "MoveOnly">>
       /\ v_contents(v_resize(vec[c], 1).self) = <<"Copyable">>
       /\ v_resize(vec[c], 1).self.storage_[1] = NONE
       /\ v_contents(v_resize(vec[c], 3).self) = <<"Copyable", "MoveOnly", NONE>>

\* C20: clear() destroys every occupied slot and leaves every slot of the
\* container empty, size() = 0 for poly_vector, is_copyable() false and
\* is_movable() true.
ClearEmptiesEverySlot ==
    /\ \A c \in VecIds :
          LET s == v_clear(vec[c])
          IN  /\ s.size_ = 0
              /\ \A k \in VSlots : s.slots_[k] = EmptySlot /\ s.storage_[k] = NONE
              /\ ~is_copyable(s) /\ is_movable(s)
    /\ \A c \in ArrIds :
          LET s == a_clear(arr[c])
          IN  /\ \A k \in ASlots : s.slots_[k] = EmptySlot /\ s.storage_[k] = NONE
              /\ ~is_copyable(s) /\ is_movable(s)

\* C21: no object constructed in a container's storage outlives the
\* container: after clear(), which is all the destructor runs, no slot's
\* storage holds a live object, whatever calls succeeded or failed before.
NoObjectOutlivesClear ==
    /\ \A c \in VecIds : \A k \in VSlots : v_clear(vec[c]).storage_[k] = NONE
    /\ \A c \in ArrIds : \A k \in ASlots : a_clear(arr[c]).storage_[k] = NONE

\* C22: a traversal of a poly_vector from begin() to end() reads exactly
\* size() entries, the i-th of them the pointer at(i) returns; no entry
\* refers to a slot at or beyond size().
VectorTraversalMatchesAt ==
    \A c \in VecIds :
       LET s == v_begin(vec[c])
           r == v_range(vec[c])
       IN  /\ Len(r) = s.size_
           /\ \A i \in 0 .. s.size_ - 1 :
                 /\ r[i + 1] = v_at(s, i).ptr
                 /\ r[i + 1] # NULL => r[i + 1][2] < s.size_

\* C23: a traversal of a poly_array from begin() to end() reads N entries,
\* the i-th of them the pointer operator[](i) returns, also after a failed
\* emplace and on an array that has been moved from.
ArrayTraversalMatchesSubscript ==
    ~halted =>
       \A c \in ArrIds :
          /\ Len(a_range(arr[c])) = N
          /\ \A i \in ASlots : a_range(arr[c])[i + 1] = a_subscript(arr[c], i)

\* C24: in a poly_vector that starts empty and is never grown by resize,
\* 0 <= size() <= Capacity and every index i of [0, size()) holds a live
\* occupant that is stored in slot i, after calls that succeeded or failed.
IndicesBelowSizeOccupied ==
    \A c \in VecIds :
       /\ 0 <= vec[c].size_ /\ vec[c].size_ <= Capacity
       /\ \A i \in 0 .. vec[c].size_ - 1 :
             /\ vec[c].slots_[i].ptr = <<c, i>>
             /\ vec[c].slots_[i].ops # NONE
             /\ vec[c].storage_[i] = vec[c].slots_[i].ops

\* C25: in every state of a poly_array and for every index i, the slot's
\* pointer is non-null exactly when a live object is in slot i's storage;
\* it then points to that storage and the slot's operation table is the one
\* of the object's variant.
ArraySlotInfoMatchesStorage ==
    \A c \in ArrIds : \A i \in ASlots :
       LET slot == arr[c].slots_[i]
       IN  /\ slot.ptr # NULL <=> arr[c].storage_[i] # NONE
           /\ slot.ptr # NULL =>
                 /\ slot.ptr = <<c, i>>
                 /\ slot.ops # NONE
                 /\ get_type_ops(slot.ops) = create(arr[c].storage_[i])

\* C25 witness: a poly_array whose slot 0 holds an object and whose slot 1
\* has been traversed while occupied and emptied since
ArraySlotEmptiedAfterTraversal ==
    \E c \in ArrIds :
       /\ arr[c].slots_[0] = [ptr |-> <<c, 0>>, ops |-> "MoveOnly"]
       /\ arr[c].storage_[0] = "MoveOnly"
       /\ arr[c].cache_valid_ /\ arr[c].ptr_cache_[1] = <<c, 1>>
       /\ arr[c].slots_[1] = EmptySlot /\ arr[c].storage_[1] = NONE

\* the flags of poly_vector self are exact: is_copyable() iff every occupant
\* is copy-constructible, is_movable() iff every occupant is
\* move-constructible
v_flags_exact(self) ==
    /\ is_copyable(self) <=> AllCopyable(self, v_occupied(self))
    /\ is_movable(self) <=> AllMovable(self, v_occupied(self))

a_flags_exact(self) ==
    /\ is_copyable(self) <=> AllCopyable(self, a_occupied(self))
    /\ is_movable(self) <=> AllMovable(self, a_occupied(self))

\* C27: right after every successful emplace_back, emplace(pos), pop_back
\* and erase on a poly_vector and every successful emplace on a poly_array,
\* is_copyable() is true iff every occupant is copy-constructible and
\* is_movable() iff every occupant is move-constructible, both being true
\* when no occupant remains.
FlagsExactAfterSuccess ==
    /\ \A c \in VecIds :
          LET self == vec[c]
              ok(r) == r.out = "ok" => v_flags_exact(r.self)
          IN  /\ \A T \in Variants :
                    ok(v_emplace_back(self, c, T, FALSE))
              /\ \A i \in VArgs, T \in Variants : \A cf \in RelocThrows(self) :
                    ok(v_emplace(self, c, i, T, FALSE, cf))
              /\ ok(v_pop_back(self))
              /\ \A i \in VArgs : \A cf \in RelocThrows(self) :
                    ok(v_erase(self, c, i, cf))
              /\ \A i, j \in VArgs : \A cf \in RelocThrows(self) :
                    ok(v_erase_range(self, c, i, j, cf))
    /\ \A c \in ArrIds :
          \A i \in AArgs, T \in Variants :
             LET r == a_emplace(arr[c], c, i, T, FALSE)
             IN  r.out = "ok" => a_flags_exact(r.self)

\* the states st of one relocation inside a container, from slot src to slot
\* dst of the state pre, come in the order: destination constructed,
\* destination slot-info recorded, source destroyed, source slot emptied;
\* in each of them the element is live in one of the two slots
RelocationOrdered(pre, st, c, src, dst) ==
    LET T == pre.storage_[src]
    IN  /\ Len(st) = 4
        /\ st[1].storage_[dst] = T /\ st[1].storage_[src] = T
        /\ st[1].slots_ = pre.slots_
        /\ st[2].slots_[dst] = [ptr |-> <<c, dst>>, ops |-> pre.slots_[src].ops]
        /\ st[2].slots_[src] = pre.slots_[src] /\ st[2].storage_ = st[1].storage_
        /\ st[3].storage_[src] = NONE /\ st[3].slots_ = st[2].slots_
        /\ st[4].slots_[src] = EmptySlot /\ st[4].storage_ = st[3].storage_
        /\ \A k \in 1 .. 4 : st[k].storage_[src] = T \/ st[k].storage_[dst] = T

\* the same for the states st (target and source) of the move of element i
\* from the source pre.other into the target pre.self, object d
MoveOrdered(pre, st, d, i) ==
    LET T == pre.other.storage_[i]
    IN  /\ Len(st) = 4
        /\ st[1].self.storage_[i] = T /\ st[1].self.slots_ = pre.self.slots_
        /\ st[1].other = pre.other
        /\ st[2].self.slots_[i] = [ptr |-> <<d, i>>, ops |-> pre.other.slots_[i].ops]
        /\ st[2].self.storage_ = st[1].self.storage_ /\ st[2].other = pre.other
        /\ st[3].other.storage_[i] = NONE /\ st[3].other.slots_ = pre.other.slots_
        /\ st[3].self = st[2].self
        /\ st[4].other.slots_[i] = EmptySlot
        /\ st[4].other.storage_ = st[3].other.storage_ /\ st[4].self = st[2].self
        /\ \A k \in 1 .. 4 :
              st[k].other.storage_[i] = T \/ st[k].self.storage_[i] = T

\* C28: every relocation step of shift_right (in emplace), of shift_left (in
\* erase) and of a whole-container move constructs the destination object,
\* records it in the destination slot, then destroys the source object and
\* empties the source slot; the element is at no point live in neither slot.
RelocationConstructsBeforeDestroying ==
    \A c \in VecIds : \A cf \in RelocThrows(vec[c]) :
       LET s0 == v_update_ptr_cache(vec[c])
           d  == CHOOSE o \in ContainerIds : o # c
       IN  /\ \A index \in 0 .. s0.size_ - 1 : \A k \in index .. s0.size_ - 1 :
                 LET p == v_shift_right_from(s0, c, s0.size_, k + 1, 1, cf)
                     r == safe_move_construct(get_type_ops(p.self.slots_[k].ops),
                                              cf = k)
                 IN  (/\ s0.size_ < Capacity /\ p.out = "ok"
                      /\ Occupied(p.self.slots_[k]) /\ r.out = "ok")
                     => RelocationOrdered(p.self,
                            v_relocate_steps(p.self, c, k, k + 1, r.obj),
                            c, k, k + 1)
           /\ \A last \in 1 .. s0.size_ - 1 : \A first \in 0 .. last - 1 :
                 \A k \in last .. s0.size_ - 1 :
                    LET count == last - first
                        s1 == v_destroy_range(s0, first, last)
                        p  == v_shift_left_upto(s1, c, last, k, count, cf)
                        r  == safe_move_construct(
                                  get_type_ops(p.self.slots_[k].ops), cf = k)
                    IN  (/\ s0.can_move_ /\ p.out = "ok"
                         /\ Occupied(p.self.slots_[k]) /\ r.out = "ok")
                        => RelocationOrdered(p.self,
                               v_relocate_steps(p.self, c, k, k - count, r.obj),
                               c, k, k - count)
           /\ \A k \in 0 .. s0.size_ - 1 :
                 LET t0 == [poly_vector_default EXCEPT !.size_ = vec[c].size_]
                     p  == v_move_from_upto(t0, d, vec[c], 0, k, cf)
                     r  == safe_move_construct(
                               get_type_ops(p.other.slots_[k].ops), cf = k)
                 IN  (p.out = "ok" /\ Occupied(p.other.slots_[k]) /\ r.out = "ok")
                     => MoveOrdered(p,
                            v_move_element_steps(p.self, d, p.other, k, r.obj),
                            d, k)

\* C28 witness: a poly_vector of two elements whose elements are both
\* relocated by an emplace at the front, by an erase of the first element and
\* by a move construction
TwoElementsRelocated ==
    \E c \in VecIds :
       /\ v_contents(vec[c]) = <<"MoveOnly", "Copyable">>
       /\ v_contents(v_emplace(vec[c], c, 0, "MoveOnly", FALSE, NoThrow).self)
             = <<"MoveOnly", "MoveOnly", "Copyable">>
       /\ v_contents(v_erase(vec[c], c, 0, NoThrow).self) = <<"Copyable">>
       /\ v_contents(v_move_construct(3 - c, vec[c], NoThrow).self)
             = <<"MoveOnly", "Copyable">>

\* C29: in the shift of an insertion (highest index first) and in the shift
\* of an erase (lowest index first, after the erased range was destroyed),
\* the destination slot of every relocation step holds no live object when
\* the element is constructed into it.
ShiftDestinationVacant ==
    \A c \in VecIds : \A cf \in RelocThrows(vec[c]) :
       LET s0 == v_update_ptr_cache(vec[c])
       IN  /\ \A index \in 0 .. s0.size_ - 1 : \A k \in index .. s0.size_ - 1 :
                 LET p == v_shift_right_from(s0, c, s0.size_, k + 1, 1, cf)
                 IN  (/\ s0.size_ < Capacity /\ p.out = "ok"
                      /\ Occupied(p.self.slots_[k]))
                     => p.self.storage_[k + 1] = NONE
           /\ \A last \in 1 .. s0.size_ - 1 : \A first \in 0 .. last - 1 :
                 \A k \in last .. s0.size_ - 1 :
                    LET count == last - first
                        s1 == v_destroy_range(s0, first, last)
                        p  == v_shift_left_upto(s1, c, last, k, count, cf)
                    IN  (/\ s0.can_move_ /\ p.out = "ok"
                         /\ Occupied(p.self.slots_[k]))
                        => p.self.storage_[k - count] = NONE

\* C30: for every operation table safe_move_construct copies exactly
\* table.size bytes if the variant is trivially relocatable; else it uses the
\* move operation if the table has one; else the copy operation if the table
\* has one; else it signals that no relocation is available and leaves
\* destination and source as they were.  A table with both operations is
\* relocated by move.
MoveStrategyPriority ==
    reloc.call = "done" =>
       LET t == reloc.table
       IN  /\ t.is_trivially_copyable =>
                 /\ reloc.how = "memcpy" /\ reloc.bytes = t.size
                 /\ reloc.out = "ok"
           /\ (~t.is_trivially_copyable /\ t.move_construct) =>
                 reloc.how = "move" /\ reloc.out = "ok"
           /\ (~t.is_trivially_copyable /\ ~t.move_construct /\ t.copy_construct) =>
                 /\ reloc.how = "copy"
                 /\ reloc.out = IF reloc.copy_throws THEN "exception" ELSE "ok"
           /\ (~t.is_trivially_copyable /\ ~t.move_construct /\ ~t.copy_construct) =>
                 /\ reloc.out = "runtime_error" /\ reloc.how = NONE
                 /\ reloc.dst = NONE /\ reloc.bytes = 0
           /\ reloc.out = "ok" <=> reloc.dst = t.variant
           /\ reloc.out # "ok" => reloc.dst = NONE
           /\ reloc.src = t.variant

\* C30 witness: a table with a move and a copy operation, not trivially
\* relocatable, has been relocated by move
RelocatedByMoveNotCopy ==
    /\ reloc.call = "done"
    /\ ~reloc.table.is_trivially_copyable
    /\ reloc.table.move_construct /\ reloc.table.copy_construct
    /\ reloc.how = "move" /\ reloc.dst = reloc.table.variant

\* C31: for every operation table safe_copy_construct uses the copy
\* operation if the table has one; else, if the variant is trivially
\* relocatable, a raw byte copy; else it signals that the variant is not
\* copyable and leaves destination and source as they were.
CopyStrategyPriority ==
    reloc.call = "copied" =>
       LET t == reloc.table
       IN  /\ t.copy_construct =>
                 /\ reloc.how = "copy"
                 /\ reloc.out = IF reloc.copy_throws THEN "exception" ELSE "ok"
           /\ (~t.copy_construct /\ t.is_trivially_copyable) =>
                 /\ reloc.how = "memcpy" /\ reloc.bytes = t.size
                 /\ reloc.out = "ok"
           /\ (~t.copy_construct /\ ~t.is_trivially_copyable) =>
                 /\ reloc.out = "runtime_error" /\ reloc.how = NONE
                 /\ reloc.dst = NONE /\ reloc.bytes = 0
           /\ reloc.out = "ok" <=> reloc.dst = t.variant
           /\ reloc.out # "ok" => reloc.dst = NONE
           /\ reloc.src = t.variant

\* C31 witness: a trivially relocatable table with a copy operation has been
\* copied by that operation, not by a raw byte copy
CopiedByOperationNotBytes ==
    /\ reloc.call = "copied"
    /\ reloc.table.is_trivially_copyable /\ reloc.table.copy_construct
    /\ reloc.how = "copy" /\ reloc.dst = reloc.table.variant

\* C32: when the copy of an occupant throws part-way through a whole-container
\* copy, every object already copied is still owned by the destination or
\* has been destroyed, and the destination keeps its invariants: a
\* constructor that fails leaves no live object behind (the object never
\* comes to exist and its destructor does not run); an assignment that fails
\* leaves every live object referenced by its slot and, for poly_vector,
\* every index of [0, size()) occupied.  The source is passed by const
\* reference.
FailedCopyLeavesNothingBehind ==
    /\ \A o \in VecIds : \A c \in ContainerIds \ {o} :
          \A cf \in CopyThrows(vec[o]) :
             LET target == IF alive[c] THEN vec[c] ELSE poly_vector_default
                 rc == v_copy_construct(c, vec[o], cf)
                 ra == v_copy_assign(target, c, vec[o], cf)
             IN  /\ rc.out = "exception" =>
                       \A k \in VSlots : rc.self.storage_[k] = NONE
                 /\ ra.out = "exception" =>
                       /\ \A k \in VSlots :
                             ra.self.storage_[k] # NONE =>
                                /\ k < ra.self.size_
                                /\ ra.self.slots_[k].ptr = <<c, k>>
                       /\ \A i \in 0 .. ra.self.size_ - 1 :
                             /\ Occupied(ra.self.slots_[i])
                             /\ ra.self.storage_[i] # NONE
    /\ \A o \in ArrIds : \A c \in ContainerIds \ {o} :
          \A cf \in CopyThrows(arr[o]) :
             LET target == IF alive[c] THEN arr[c] ELSE poly_array_default
                 rc == a_copy_construct(c, arr[o], cf)
                 ra == a_copy_assign(target, c, arr[o], cf)
             IN  /\ rc.out = "exception" =>
                       \A k \in ASlots : rc.self.storage_[k] = NONE
                 /\ ra.out = "exception" =>
                       \A k \in ASlots :
                          ra.self.storage_[k] # NONE =>
                             ra.self.slots_[k].ptr = <<c, k>>

\* C33: when emplace at an index i < size() fails because an occupant of
\* [i, size()) can be relocated neither by move nor by copy, size() and every
\* occupant of [0, size()) are as before, also when occupants at higher
\* indices are relocatable.
UnrelocatableEmplaceChangesNothing ==
    \A c \in VecIds : \A i \in 0 .. vec[c].size_ - 1, T \in Variants :
       \A cf \in RelocThrows(vec[c]) :
          LET r == v_emplace(vec[c], c, i, T, FALSE, cf)
          IN  r.out = "runtime_error" =>
                 /\ r.self.size_ = vec[c].size_
                 /\ \A k \in 0 .. vec[c].size_ - 1 :
                       /\ r.self.slots_[k] = vec[c].slots_[k]
                       /\ r.self.storage_[k] = vec[c].storage_[k]

\* C34: a successful emplace(pos) returns the position of the new element,
\* the requested index; a successful erase(first, last) returns the position
\* first, which designates the element that followed the removed range and
\* is end() when a suffix was removed; erase of an empty range returns first
\* and changes nothing, whatever is_movable() is.
EmplaceAndEraseReturnPosition ==
    \A c \in VecIds : \A cf \in RelocThrows(vec[c]) :
       LET s == vec[c]
       IN  /\ \A i \in 0 .. s.size_, T \in Variants :
                 LET r == v_emplace(s, c, i, T, FALSE, cf)
                 IN  r.out = "ok" =>
                        /\ r.it = i /\ r.self.cache_valid_
                        /\ r.self.ptr_cache_[r.it] = <<c, i>>
                        /\ Pointee(r.self, r.self.ptr_cache_[r.it]) = T
           /\ \A j \in 0 .. s.size_ : \A i \in 0 .. j :
                 LET r == v_erase_range(s, c, i, j, cf)
                 IN  /\ (i < j /\ r.out = "ok") =>
                           /\ r.it = i /\ r.self.cache_valid_
                           /\ j = s.size_ => r.it = r.self.size_
                           /\ j < s.size_ =>
                                 /\ r.it < r.self.size_
                                 /\ Pointee(r.self, r.self.ptr_cache_[r.it])
                                       = Pointee(s, s.slots_[j].ptr)
                     /\ i = j =>
                           /\ r.out = "ok" /\ r.it = i
                           /\ r.self = v_update_ptr_cache(s)

\* C34 witness: on a poly_vector of two elements an emplace at the front
\* returns position 0, the erase of the first element returns position 0,
\* where the second element now is, and the erase of the last returns end()
PositionsReturnedOnTwoElements ==
    \E c \in VecIds :
       /\ v_contents(vec[c]) = <<"MoveOnly", "Copyable">>
       /\ v_emplace(vec[c], c, 0, "CopyOnly", FALSE, NoThrow).it = 0
       /\ LET r == v_erase_range(vec[c], c, 0, 1, NoThrow)
          IN  r.it = 0 /\ v_contents(r.self) = <<"Copyable">>
       /\ LET r == v_erase_range(vec[c], c, 1, 2, NoThrow)
          IN  r.it = 1 /\ r.self.size_ = 1

\* C35: the operation table of a variant is built at most once, every
\* request for the variant gets that one table, also when the first requests
\* race, the table is never changed once built, and its copy-construct
\* operation is present iff the variant is copy-constructible, its
\* move-construct operation iff the variant is move-constructible.
OperationTableBuiltOnce ==
    /\ [](\A T \in Variants :
            /\ reloc.built[T] <= 1
            /\ reloc.guard[T] = "done" => reloc.ops[T] # NoTable
            /\ reloc.ops[T] # NoTable =>
                  /\ reloc.ops[T].variant = T
                  /\ reloc.ops[T].copy_construct
                        <=> reloc.ops[T].is_copy_constructible
                  /\ reloc.ops[T].is_copy_constructible
                        <=> is_copy_constructible_v(T)
                  /\ reloc.ops[T].move_construct
                        <=> reloc.ops[T].is_move_constructible
                  /\ reloc.ops[T].is_move_constructible
                        <=> is_move_constructible_v(T)
            /\ \A t \in Threads :
                  (reloc.T[t] = T /\ reloc.pc[t] = "idle") =>
                     /\ reloc.got[t] # NoTable
                     /\ reloc.got[t] = reloc.ops[T])
    /\ [][\A T \in Variants :
            reloc.ops[T] # NoTable => reloc.ops'[T] = reloc.ops[T]]_vars

\* C35 witness: two threads asked for the table of the same variant, one of
\* them built it, and both hold the same table, which has a move-construct
\* operation and no copy-construct operation
TwoThreadsHoldOneTable ==
    /\ kind = "get"
    /\ reloc.T[1] = "MoveOnly" /\ reloc.T[2] = "MoveOnly"
    /\ reloc.pc[1] = "idle" /\ reloc.pc[2] = "idle"
    /\ reloc.built["MoveOnly"] = 1
    /\ reloc.got[1] = reloc.got[2]
    /\ reloc.got[1].move_construct /\ ~reloc.got[1].copy_construct

\* C36: in every reachable state of a poly_vector and of a poly_array the
\* capability flags are sound: is_copyable() implies that every occupant is
\* copy-constructible and is_movable() that every occupant is
\* move-constructible.
CapabilityFlagsSound ==
    /\ \A c \in VecIds :
          /\ is_copyable(vec[c]) => AllCopyable(vec[c], v_occupied(vec[c]))
          /\ is_movable(vec[c]) => AllMovable(vec[c], v_occupied(vec[c]))
    /\ \A c \in ArrIds :
          /\ is_copyable(arr[c]) => AllCopyable(arr[c], a_occupied(arr[c]))
          /\ is_movable(arr[c]) => AllMovable(arr[c], a_occupied(arr[c]))

\* C37: in every reachable state of a poly_vector no slot at an index
\* >= size() holds a live object, so that the slot a placement construction
\* targets (slot size() for emplace_back and for the growth of resize) is
\* vacant.
NoLiveObjectBeyondSize ==
    \A c \in VecIds :
       /\ \A k \in VSlots : k >= vec[c].size_ => vec[c].storage_[k] = NONE
       /\ vec[c].size_ < Capacity =>
             Pointee(vec[c], <<c, vec[c].size_>>) = NONE

====
